---- MODULE Spec2Model ----
(***************************************************************************)
(* Model of the AI Research Assistant: the run state machine kept in the   *)
(* SQLite store (models/database.py), the analysis workflow of the         *)
(* Streamlit application (app.py) and the retry executor of the ingestors  *)
(* (ingestors/base.py).                                                    *)
(***************************************************************************)
EXTENDS Integers, Sequences, FiniteSets, TLC

(***************************************************************************)
(* Bounds of the model.                                                    *)
(***************************************************************************)
MaxRuns == 2
MaxPerLeg == 1
MaxRetries == 3
MaxDelay == 2
MaxElapse == 1
MaxCoroutines == 2
MaxQueryLen == 6
MaxFiles == 2
MaxFeeds == 2
MaxEntries == 2
MaxCap == 3
MaxRows == 2
MaxPoints == 51
MaxDay == 1
MaxDaysOld == 1
MaxNow == 1

Queries == {"AAPL"}

\* SQL NULL of a TIMESTAMP column / of a TEXT column.
NoTime == 0
NoError == "None"

\* RunStatus values (models/schemas.py).
PENDING == "pending"
RUNNING == "running"
COMPLETED == "completed"
FAILED == "failed"
CANCELLED == "cancelled"
RunStatus == {PENDING, RUNNING, COMPLETED, FAILED, CANCELLED}

\* The three ingestor legs in the order run_sync_analysis invokes them.
Legs == <<"market", "news", "sec">>
LegSet == {"market", "news", "sec"}

\* SourceType of the ingestor behind each leg.
SourceTypeOf(leg) ==
    CASE leg = "market" -> "market_data"
      [] leg = "news" -> "news_article"
      [] leg = "sec" -> "sec_filing"

\* str(e) of the exceptions the workflow can see.
ValidationError == "pydantic.ValidationError"
AddSourceError == "sqlite3.Error(add_source)"
SaveMemoError == "sqlite3.Error(save_memo)"
UpdateStatusError == "sqlite3.Error(update_run_status)"
PersistenceErrors == {AddSourceError, SaveMemoError, UpdateStatusError}

VARIABLES
    runs,               \* table runs: row id = index
    dbSources,          \* table sources, in insertion order
    memos,              \* table memos, in insertion order
    clock,              \* datetime.now(), a logical clock
    current_analysis,   \* st.session_state.current_analysis (0 = None)
    analysis_started,   \* 'analysis_started' in st.session_state
    pc,                 \* position of the application script
    wfRun,              \* argument run_id of run_sync_analysis (0: not in it)
    quickRun,           \* local run_id of the latest run_quick_analysis call
    call,               \* state of the ingest call of the current leg
    sources,            \* local list `sources` of run_sync_analysis
    invoked,            \* legs whose ingest was invoked in this workflow
    legFailed,          \* legs whose except branch logged "... data failed"
    r_m, r_delay, r_outcomes, r_attempt, r_pc, r_calls, r_sleeps,
    r_last, r_result, r_log

\* MarketIngestor: one instance and one call of its ingest.
VARIABLES
    m_pc,               \* position inside MarketIngestor.ingest
    m_query,            \* argument query, a sequence of characters
    m_run_id,           \* argument run_id
    m_yf,               \* yfinance and pandas could be imported
    m_now,              \* time.time()
    m_last,             \* self.last_request_time
    m_requests,         \* requests sent to yfinance: sub-fetch and send time
    m_attempts,         \* how often each fetch_* function was invoked
    m_outcome,          \* what yfinance did for each sub-fetch
    m_sources,          \* local list `sources` of ingest
    m_result            \* [kind, val]: what ingest returned

\* Coroutines that run _get_ticker_info on one MarketIngestor instance.
VARIABLES
    t_pc,               \* position of each coroutine inside _get_ticker_info
    t_seen,             \* the last_request_time each one read in its check
    t_wake,             \* when the asyncio.sleep of each one is over
    t_now,              \* time.time()
    t_last,             \* self.last_request_time of the shared instance
    t_requests          \* ticker-info requests sent: coroutine and send time

\* A query put to can_handle of the three ingestors.
VARIABLES
    q_pc,               \* "off", "ask" or "done"
    q_query,            \* the query, a sequence of characters
    q_answer            \* what the three can_handle methods returned

\* One call of NewsIngestor._is_relevant_article.
VARIABLES
    a_pc,               \* "off", "ask" or "done"
    a_query,            \* argument query
    a_entry,            \* argument entry: the words of title, summary, tags
    a_relevant          \* the value returned

\* SECIngestor: one call of its ingest.
VARIABLES
    s_pc,               \* position inside SECIngestor.ingest
    s_query,            \* argument query, a sequence of characters
    s_run_id,           \* argument run_id
    s_downloader,       \* self.downloader is set
    s_type,             \* index of the filing type the loop is at
    s_attempted,        \* filing types _download_filings was called for
    s_delivered,        \* per filing type: did the download fail, files found
    s_downloads,        \* calls of downloader.get
    s_sources,          \* local list `sources` of ingest
    s_result            \* [kind, val]: what ingest returned

\* NewsIngestor: one call of its ingest.
VARIABLES
    n_pc,               \* position inside NewsIngestor.ingest
    n_query,            \* argument query
    n_run_id,           \* argument run_id
    n_session,          \* self.session is set
    n_max_articles,     \* kwargs / config "max_articles"
    n_delivered,        \* per feed processed: [failed, entries] as delivered
    n_feed,             \* index of the feed the loop is at
    n_fetches,          \* calls of feedparser.parse
    n_sources,          \* local list `sources` of ingest
    n_result            \* [kind, val]: what ingest returned

\* NewsIngestor: one call of its _process_article.
VARIABLES
    p_pc,               \* position inside _process_article
    p_entry,            \* the feed entry: [link, summary, broken]
    p_session,          \* self.session is set
    p_robots,           \* what fetching robots.txt gave
    p_page,             \* what fetching the article page gave
    p_requests,         \* the URLs fetched so far, in order
    p_content,          \* local variable `content`
    p_result            \* [kind, val]: what _process_article returned

\* DatabaseManager: the table sources under add_source and get_sources.
VARIABLES
    d_rows,             \* table sources: the rows in insertion order (index = id)
    d_added,            \* history: [run_id, source] of every add_source that returned
    d_read              \* [kind, run_id, val]: the last get_sources and its result

\* DatabaseManager: the tables runs, sources and memos under create_run,
\* add_source, save_memo and cleanup_old_runs, and the calendar.
VARIABLES
    k_fk,               \* a new connection enforces foreign keys (build default)
    k_today,            \* the current day; days <= 0 are in the previous month
    k_seq,              \* AUTOINCREMENT of runs: the largest id given so far
    k_runs,             \* table runs: a set of [id, started_at]
    k_sources,          \* table sources: rows [run_id] in insertion order
    k_memos,            \* table memos: rows [run_id, created_at] in insertion order
    k_op                \* [name, days_old]: the last call made

\* WatchlistManager: the tables watchlists and watchlist_items.
VARIABLES
    w_now,              \* CURRENT_TIMESTAMP
    w_updated,          \* table watchlists: updated_at of each, index = id
    w_items,            \* table watchlist_items: rows [watchlist_id, ticker]
    w_ret               \* [op, watchlist_id, ticker, result]: the last call

\* TechnicalAnalyzer: one run of _calculate_indicators and
\* _generate_technical_insights on a price history.
VARIABLES
    i_pc,               \* position inside generate_comprehensive_chart
    i_n,                \* number of rows of the history
    i_close,            \* shape of the column Close
    i_volume,           \* shape of the column Volume, or "missing"
    i_indicators,       \* dict `indicators`: series by name
    i_insights          \* list `insights`

appVars == <<runs, dbSources, memos, clock, current_analysis, analysis_started,
             pc, wfRun, quickRun, call, sources, invoked, legFailed>>
retryVars == <<r_m, r_delay, r_outcomes, r_attempt, r_pc, r_calls, r_sleeps,
               r_last, r_result, r_log>>
marketVars == <<m_pc, m_query, m_run_id, m_yf, m_now, m_last, m_requests, m_attempts,
                m_outcome, m_sources, m_result>>
limiterVars == <<t_pc, t_seen, t_wake, t_now, t_last, t_requests>>
queryVars == <<q_pc, q_query, q_answer>>
relevanceVars == <<a_pc, a_query, a_entry, a_relevant>>
secVars == <<s_pc, s_query, s_run_id, s_downloader, s_type, s_attempted, s_delivered,
             s_downloads, s_sources, s_result>>
newsVars == <<n_pc, n_query, n_run_id, n_session, n_max_articles, n_delivered,
              n_feed, n_fetches, n_sources, n_result>>
articleVars == <<p_pc, p_entry, p_session, p_robots, p_page, p_requests,
                 p_content, p_result>>
callVars == <<marketVars, limiterVars, queryVars, relevanceVars, secVars,
              newsVars>>
dbVars == <<d_rows, d_added, d_read>>
taVars == <<i_pc, i_n, i_close, i_volume, i_indicators, i_insights>>
cleanVars == <<k_fk, k_today, k_seq, k_runs, k_sources, k_memos, k_op>>
watchVars == <<w_now, w_updated, w_items, w_ret>>
endVars == <<cleanVars, watchVars>>
laterVars == <<articleVars, dbVars, taVars, endVars>>
ingestVars == <<callVars, laterVars>>
vars == <<appVars, retryVars, ingestVars>>

(***************************************************************************)
(* Persistence layer (models/database.py).                                 *)
(***************************************************************************)

\* INSERT INTO runs (query, started_at, status): the other columns are NULL.
create_run(query, now) ==
    [query |-> query, started_at |-> now, finished_at |-> NoTime,
     status |-> PENDING, error_message |-> NoError]

\* Variant: the UPDATE leaves error_message as it was.
update_run_status_keepmsg(rs, run_id, status, error_message, now) ==
    IF run_id \notin DOMAIN rs THEN rs
    ELSE [rs EXCEPT ![run_id] = [@ EXCEPT !.status = status]]

\* Variant: the UPDATE has no WHERE clause and writes every row.
update_run_status_anyrow(rs, run_id, status, error_message, now) ==
    [id \in DOMAIN rs |->
        IF status = COMPLETED
        THEN [rs[id] EXCEPT !.status = status, !.finished_at = now,
                            !.error_message = error_message]
        ELSE [rs[id] EXCEPT !.status = status, !.error_message = error_message]]

\* The UPDATE of update_run_status: finished_at is written only in the
\* COMPLETED branch; error_message is always overwritten.
update_run_status(rs, run_id, status, error_message, now) ==
    IF run_id \notin DOMAIN rs THEN rs
    ELSE IF status = COMPLETED
         THEN [rs EXCEPT ![run_id] = [@ EXCEPT !.status = status,
                                                !.finished_at = now,
                                                !.error_message = error_message]]
         ELSE [rs EXCEPT ![run_id] = [@ EXCEPT !.status = status,
                                                !.error_message = error_message]]

\* The row add_source inserts for a collected DataSource.
add_source(run_id, source) == [run_id |-> run_id, type |-> source.type]

\* The row save_memo inserts.
save_memo(run_id, memo) == [run_id |-> run_id, n_sources |-> memo.n_sources]


(***************************************************************************)
(* Schema validation (models/schemas.py) and memo building (app.py).       *)
(***************************************************************************)

\* A Python value passed for a field: a str or an int.
StrVal(s) == [t |-> "str", v |-> s]
IntVal(i) == [t |-> "int", v |-> i]

\* Strings int() parses; pydantic coerces exactly these to int.
DigitStrings == {"0", "1", "2", "3"}

\* One element of a List[int] field passes validation.
IntCoercible(x) == x.t = "int" \/ (x.t = "str" /\ x.v \in DigitStrings)

\* Fields declared with Field(...) and no default.
RiskItemRequired == {"risk", "rationale", "confidence", "severity"}
OpportunityItemRequired == {"opportunity", "rationale", "confidence", "potential_impact"}
MetricItemRequired == {"metric", "value", "trend", "period"}

\* Variant: the models are built without validation.
PydanticValid_unchecked(fields, required) == TRUE

\* Construction of a BaseModel succeeds: every required field is given and
\* every source_ids element is an int (source_ids: List[int]).
PydanticValid(fields, required) ==
    /\ required \subseteq DOMAIN fields
    /\ "source_ids" \in DOMAIN fields =>
           \A i \in DOMAIN fields.source_ids : IntCoercible(fields.source_ids[i])

\* The keyword arguments the code passes to the three models.
AiRiskItem == [risk |-> "phrase", rationale |-> "sentence",
               source_ids |-> <<StrVal("S1")>>]
FallbackRiskItem == [risk |-> "Market volatility", rationale |-> "General market risks",
                     source_ids |-> <<StrVal("S1")>>]
FallbackOpportunityItem == [opportunity |-> "Market expansion",
                            rationale |-> "Potential for growth",
                            source_ids |-> <<StrVal("S1")>>]
DataSourcesMetric(n) == [metric |-> "Data Sources", value |-> StrVal("n"),
                         trend |-> "stable", period |-> "Current",
                         source_ids |-> <<StrVal("S1")>>, context |-> n]

\* ai_analyzer.extract_risks / extract_opportunities: the number of items they
\* return. aiFound says whether the NLP models flagged a sentence; an item
\* whose construction raises is dropped (or empties the list via the except
\* of generate_simple_memo).
ExtractCount(aiFound) ==
    IF aiFound /\ PydanticValid(AiRiskItem, RiskItemRequired) THEN 1 ELSE 0

\* generate_simple_memo(ticker, sources): the memo, or the exception raised
\* while its items are constructed.
generate_simple_memo(ticker, srcs, aiFound) ==
    LET ai_risks == ExtractCount(aiFound)
        ai_opportunities == ExtractCount(aiFound)
    IN  IF ai_risks = 0 /\ ~PydanticValid(FallbackRiskItem, RiskItemRequired)
        THEN [ok |-> FALSE, err |-> ValidationError, n_sources |-> Len(srcs)]
        ELSE IF ai_opportunities = 0
                /\ ~PydanticValid(FallbackOpportunityItem, OpportunityItemRequired)
        THEN [ok |-> FALSE, err |-> ValidationError, n_sources |-> Len(srcs)]
        ELSE IF ~PydanticValid(DataSourcesMetric(Len(srcs)), MetricItemRequired)
        THEN [ok |-> FALSE, err |-> ValidationError, n_sources |-> Len(srcs)]
        ELSE [ok |-> TRUE, err |-> NoError, n_sources |-> Len(srcs)]

(***************************************************************************)
(* The application script (app.py).                                        *)
(***************************************************************************)

\* Where run_sync_analysis goes after a leg.
NextPc(leg) ==
    CASE leg = "market" -> "news"
      [] leg = "news" -> "sec"
      [] leg = "sec" -> "save"

\* Variant: an ingestor error abandons the remaining legs.
AfterLegError_abort(leg) == "save"

\* Where run_sync_analysis goes after the except branch of a leg: the branch
\* only logs a warning, so control falls through to the next leg.
AfterLegError(leg) == NextPc(leg)

\* The DataSource objects an ingest call returns: n sources of the
\* ingestor's type, carrying the run id it was given.
Ingested(leg, run_id, n) ==
    [i \in 1..n |-> [run_id |-> run_id, type |-> SourceTypeOf(leg)]]

\* start_analysis, first half: create_run, then current_analysis is set.
\* (create_run raising leaves every variable unchanged.)
StartAnalysisCreate(q) ==
    /\ pc = "idle"
    /\ Len(runs) < MaxRuns
    /\ runs' = Append(runs, create_run(q, clock))
    /\ clock' = clock + 1
    /\ current_analysis' = Len(runs) + 1
    /\ pc' = "start"
    /\ UNCHANGED <<dbSources, memos, analysis_started, wfRun, quickRun, call,
                   sources, invoked, legFailed>>
    /\ UNCHANGED <<retryVars, ingestVars>>

\* start_analysis, second half: analysis_started is deleted, the run is
\* moved to running (the update may raise: the except shows the error), and
\* the script reruns.
StartAnalysisUpdate ==
    /\ pc = "start"
    /\ analysis_started' = FALSE
    /\ \E ok \in BOOLEAN :
           runs' = IF ok
                   THEN update_run_status(runs, current_analysis, RUNNING, NoError, clock)
                   ELSE runs
    /\ pc' = "idle"
    /\ UNCHANGED <<dbSources, memos, clock, current_analysis, wfRun, quickRun, call,
                   sources, invoked, legFailed>>
    /\ UNCHANGED <<retryVars, ingestVars>>

\* single_company_analysis: the current run is running and no analysis was
\* started for it in this session, so run_sync_analysis is entered.
BeginWorkflow ==
    /\ pc = "idle"
    /\ current_analysis # 0
    /\ runs[current_analysis].status = RUNNING
    /\ ~analysis_started
    /\ analysis_started' = TRUE
    /\ wfRun' = current_analysis
    /\ pc' = "market"
    /\ call' = "none"
    /\ sources' = <<>>
    /\ invoked' = {}
    /\ legFailed' = {}
    /\ UNCHANGED <<runs, dbSources, memos, clock, current_analysis, quickRun>>
    /\ UNCHANGED <<retryVars, ingestVars>>

\* loop.run_until_complete(ingestor.ingest(query, run_id)) is entered.
LegStart ==
    /\ pc \in LegSet
    /\ call = "none"
    /\ call' = "inflight"
    /\ invoked' = invoked \cup {pc}
    /\ UNCHANGED <<runs, dbSources, memos, clock, current_analysis, analysis_started,
                   pc, wfRun, quickRun, sources, legFailed>>
    /\ UNCHANGED <<retryVars, ingestVars>>

\* The ingest call returns n sources: sources.extend(...).
LegReturn(n) ==
    /\ pc \in LegSet
    /\ call = "inflight"
    /\ sources' = sources \o Ingested(pc, wfRun, n)
    /\ call' = "none"
    /\ pc' = NextPc(pc)
    /\ UNCHANGED <<runs, dbSources, memos, clock, current_analysis, analysis_started,
                   wfRun, quickRun, invoked, legFailed>>
    /\ UNCHANGED <<retryVars, ingestVars>>

\* The ingest call raises: the except branch of the leg logs a warning.
LegRaise ==
    /\ pc \in LegSet
    /\ call = "inflight"
    /\ legFailed' = legFailed \cup {pc}
    /\ call' = "none"
    /\ pc' = AfterLegError(pc)
    /\ UNCHANGED <<runs, dbSources, memos, clock, current_analysis, analysis_started,
                   wfRun, quickRun, sources, invoked>>
    /\ UNCHANGED <<retryVars, ingestVars>>

\* The ingest call never returns: run_until_complete has no timeout.
LegHang ==
    /\ pc \in LegSet
    /\ call = "inflight"
    /\ call' = "hung"
    /\ UNCHANGED <<runs, dbSources, memos, clock, current_analysis, analysis_started,
                   pc, wfRun, quickRun, sources, invoked, legFailed>>
    /\ UNCHANGED <<retryVars, ingestVars>>

\* The rows the loop `for source in sources` leaves in the table: add_source
\* for each source in order; a call that raises (the positions in failed) is
\* caught inside the loop, logged as a warning, and adds no row.
RECURSIVE SavedRows(_, _, _)
SavedRows(run_id, srcs, failed) ==
    IF srcs = <<>> THEN <<>>
    ELSE LET n == Len(srcs)
             before == SavedRows(run_id, SubSeq(srcs, 1, n - 1), failed)
         IN  IF n \in failed THEN before
             ELSE Append(before, add_source(run_id, srcs[n]))

\* Whether a persistence call succeeds (TRUE) or raises (FALSE), for a call
\* that is made only if control gets to it.
Reached(made) == IF made THEN BOOLEAN ELSE {FALSE}

\* Variant: an exception of save_memo is swallowed.
WorkflowError_savemissed(memo, saveOk, doneOk) ==
    IF ~memo.ok THEN memo.err
    ELSE IF ~doneOk THEN UpdateStatusError
    ELSE NoError

\* The exception, if any, that reaches the outer except of run_sync_analysis
\* after the loop: from generate_simple_memo, save_memo or the update to
\* completed, in that order.
WorkflowError(memo, saveOk, doneOk) ==
    IF ~memo.ok THEN memo.err
    ELSE IF ~saveOk THEN SaveMemoError
    ELSE IF ~doneOk THEN UpdateStatusError
    ELSE NoError

\* Variant: the outer except undoes the rows written for the Run.
run_sync_analysis_tail_rollback(rs, rows, ms, run_id, srcs, failed, memo, saveOk, doneOk, failOk, now) ==
    LET err == WorkflowError(memo, saveOk, doneOk)
    IN  IF err = NoError
        THEN [dbSources |-> rows \o SavedRows(run_id, srcs, failed),
              memos |-> Append(ms, save_memo(run_id, memo)),
              runs |-> update_run_status(rs, run_id, COMPLETED, NoError, now),
              clock |-> now + 1]
        ELSE [dbSources |-> rows,
              memos |-> ms,
              runs |-> IF failOk
                       THEN update_run_status(rs, run_id, FAILED, err, now)
                       ELSE rs,
              clock |-> now]

\* What the rest of run_sync_analysis after the legs leaves in the store, from
\* the tables rs, rows and ms: the rows of the save loop, the memo row if
\* generate_simple_memo returned and save_memo did not raise, and the Run
\* updated to completed, or to failed with str(e) by the outer except (unless
\* that update raises too).
run_sync_analysis_tail(rs, rows, ms, run_id, srcs, failed, memo, saveOk, doneOk, failOk, now) ==
    LET err == WorkflowError(memo, saveOk, doneOk)
    IN  [dbSources |-> rows \o SavedRows(run_id, srcs, failed),
         memos |-> IF memo.ok /\ saveOk THEN Append(ms, save_memo(run_id, memo)) ELSE ms,
         runs |-> IF err = NoError
                  THEN update_run_status(rs, run_id, COMPLETED, NoError, now)
                  ELSE IF failOk
                  THEN update_run_status(rs, run_id, FAILED, err, now)
                  ELSE rs,
         clock |-> IF err = NoError THEN now + 1 ELSE now]

\* The rest of run_sync_analysis after the legs: the save loop, then
\* generate_simple_memo, save_memo and the update to completed inside the
\* outer try; an exception of these three goes to the outer except,
\* which updates the run to failed with str(e) (that update may itself raise).
\* The function returns and its locals are gone.
FinishWorkflow ==
    /\ pc = "save"
    /\ \E failed \in SUBSET DOMAIN sources :
       \E aiFound \in BOOLEAN :
         LET memo == generate_simple_memo(runs[wfRun].query, sources, aiFound)
         IN  \E saveOk \in Reached(memo.ok) :
             \E doneOk \in Reached(memo.ok /\ saveOk) :
             \E failOk \in Reached(WorkflowError(memo, saveOk, doneOk) # NoError) :
             \E out \in {run_sync_analysis_tail(runs, dbSources, memos, wfRun, sources,
                                                failed, memo, saveOk, doneOk, failOk,
                                                clock)} :
                   /\ dbSources' = out.dbSources
                   /\ memos' = out.memos
                   /\ runs' = out.runs
                   /\ clock' = out.clock
    /\ pc' = "idle"
    /\ wfRun' = 0
    /\ sources' = <<>>
    /\ invoked' = {}
    /\ legFailed' = {}
    /\ UNCHANGED <<current_analysis, analysis_started, quickRun, call>>
    /\ UNCHANGED <<retryVars, ingestVars>>

\* run_quick_analysis, first half: create_run for the ticker.
QuickCreate(t) ==
    /\ pc = "idle"
    /\ Len(runs) < MaxRuns
    /\ runs' = Append(runs, create_run(t, clock))
    /\ clock' = clock + 1
    /\ quickRun' = Len(runs) + 1
    /\ pc' = "quick"
    /\ UNCHANGED <<dbSources, memos, current_analysis, analysis_started, wfRun, call,
                   sources, invoked, legFailed>>
    /\ UNCHANGED <<retryVars, ingestVars>>

\* What run_quick_analysis leaves in the store after create_run: the memo row
\* if generate_simple_memo returned and save_memo did not raise, and then the
\* Run updated to completed; any exception ends the function with no update.
run_quick_analysis_tail(rs, ms, run_id, memo, saveOk, doneOk, now) ==
    LET err == WorkflowError(memo, saveOk, doneOk)
    IN  [memos |-> IF memo.ok /\ saveOk THEN Append(ms, save_memo(run_id, memo)) ELSE ms,
         runs |-> IF err = NoError
                  THEN update_run_status(rs, run_id, COMPLETED, NoError, now)
                  ELSE rs,
         clock |-> IF err = NoError THEN now + 1 ELSE now]

\* run_quick_analysis, second half. The market step calls run_sync_analysis
\* with one argument, which raises TypeError before any code of it runs, so
\* the local sources stay empty; then generate_simple_memo, save_memo and the
\* update to completed. Any exception makes the function return None.
QuickFinish ==
    /\ pc = "quick"
    /\ \E aiFound, saveOk, doneOk \in BOOLEAN :
         LET memo == generate_simple_memo(runs[quickRun].query, <<>>, aiFound)
         IN  \E out \in {run_quick_analysis_tail(runs, memos, quickRun, memo, saveOk,
                                                 doneOk, clock)} :
                 /\ memos' = out.memos
                 /\ runs' = out.runs
                 /\ clock' = out.clock
    /\ pc' = "idle"
    /\ UNCHANGED <<dbSources, current_analysis, analysis_started, wfRun, quickRun,
                   call, sources, invoked, legFailed>>
    /\ UNCHANGED <<retryVars, ingestVars>>

AppInit ==
    /\ runs = <<>>
    /\ dbSources = <<>>
    /\ memos = <<>>
    /\ clock = 1
    /\ current_analysis = 0
    /\ analysis_started = FALSE
    /\ pc = "idle"
    /\ wfRun = 0
    /\ quickRun = 0
    /\ call = "none"
    /\ sources = <<>>
    /\ invoked = {}
    /\ legFailed = {}

(***************************************************************************)
(* Retry executor (ingestors/base.py, BaseIngestor.process_with_retry).    *)
(***************************************************************************)

\* The value the operation returns / the exception it raises at its i-th
\* invocation, and the initial value None of last_exception.
OpValue(i) == [type |-> "value", call |-> i]
OpError(i) == [type |-> "OpError", call |-> i]
NoException == [type |-> "None", call |-> 0]

\* Variant: `raise None` ends the call with no error.
RaiseOf_silent(last) == last

\* `raise last_exception`: raising None is a TypeError of the interpreter.
RaiseOf(last) == IF last = NoException THEN [type |-> "TypeError", call |-> 0] ELSE last

\* Variant: the delay is halved instead of doubled.
BackoffDelay_halving(delay, attempt) == delay \div (2 ^ attempt)

\* Variant: the exponent counts the attempt from 1.
BackoffDelay_fromOne(delay, attempt) == delay * (2 ^ (attempt + 1))

\* delay * (2 ** attempt), attempt counted from 0.
BackoffDelay(delay, attempt) == delay * (2 ^ attempt)

\* Variant: a sleep follows every failed attempt, the last one included.
SleepsAfter_always(attempt, max_retries) == attempt < max_retries

\* if attempt < max_retries - 1: sleep before the next attempt.
SleepsAfter(attempt, max_retries) == attempt < max_retries - 1

\* One pass of the loop body: func is invoked; a success returns at once, a
\* failure is stored in last_exception and logged.
RetryAttempt ==
    /\ r_pc = "loop"
    /\ r_attempt < r_m
    /\ r_calls' = r_calls + 1
    /\ IF r_outcomes[r_attempt + 1]
       THEN /\ r_result' = [kind |-> "return", val |-> OpValue(r_calls + 1)]
            /\ r_pc' = "done"
            /\ UNCHANGED <<r_last, r_log, r_attempt>>
       ELSE /\ r_last' = OpError(r_calls + 1)
            /\ r_log' = Append(r_log, <<"warning", r_attempt + 1>>)
            /\ IF SleepsAfter(r_attempt, r_m)
               THEN r_pc' = "sleep" /\ r_attempt' = r_attempt
               ELSE r_pc' = "loop" /\ r_attempt' = r_attempt + 1
            /\ UNCHANGED r_result
    /\ UNCHANGED <<r_m, r_delay, r_outcomes, r_sleeps>>
    /\ UNCHANGED <<appVars, ingestVars>>

\* await asyncio.sleep(delay * (2 ** attempt)), then the next pass.
RetrySleep ==
    /\ r_pc = "sleep"
    /\ r_sleeps' = Append(r_sleeps, BackoffDelay(r_delay, r_attempt))
    /\ r_attempt' = r_attempt + 1
    /\ r_pc' = "loop"
    /\ UNCHANGED <<r_m, r_delay, r_outcomes, r_calls, r_last, r_result, r_log>>
    /\ UNCHANGED <<appVars, ingestVars>>

\* The loop is exhausted: the count is logged and last_exception is raised.
RetryExhausted ==
    /\ r_pc = "loop"
    /\ r_attempt >= r_m
    /\ r_log' = Append(r_log, <<"error", r_m>>)
    /\ r_result' = [kind |-> "raise", val |-> RaiseOf(r_last)]
    /\ r_pc' = "done"
    /\ UNCHANGED <<r_m, r_delay, r_outcomes, r_attempt, r_calls, r_sleeps, r_last>>
    /\ UNCHANGED <<appVars, ingestVars>>

\* No call of process_with_retry is in progress.
RetryIdle ==
    /\ r_m = 0
    /\ r_delay = 0
    /\ r_outcomes = <<>>
    /\ r_attempt = 0
    /\ r_pc = "off"
    /\ r_calls = 0
    /\ r_sleeps = <<>>
    /\ r_last = NoException
    /\ r_result = [kind |-> "none", val |-> NoException]
    /\ r_log = <<>>

\* A call process_with_retry(func, max_retries = m, delay = d), func failing
\* or succeeding at each invocation as r_outcomes says.
RetryCall ==
    /\ r_m \in 0..MaxRetries
    /\ r_delay \in 0..MaxDelay
    /\ r_outcomes \in [1..r_m -> BOOLEAN]
    /\ r_attempt = 0
    /\ r_pc = "loop"
    /\ r_calls = 0
    /\ r_sleeps = <<>>
    /\ r_last = NoException
    /\ r_result = [kind |-> "none", val |-> NoException]
    /\ r_log = <<>>

(***************************************************************************)
(* Queries as character strings, and can_handle of the ingestors.          *)
(***************************************************************************)

\* The characters of a query: a lower-case letter, an upper-case letter, a
\* digit and a blank.
Chars == {"a", "A", "1", " "}
UpperLetters == {"A"}
LowerLetters == {"a"}
Whitespace == {" "}

\* {1,5} of the ticker pattern.
TickerMaxLen == 5

\* str.upper() and str.lower(), character by character.
UpperChar(c) == IF c = "a" THEN "A" ELSE c
LowerChar(c) == IF c = "A" THEN "a" ELSE c
Upper(s) == [i \in DOMAIN s |-> UpperChar(s[i])]
Lower(s) == [i \in DOMAIN s |-> LowerChar(s[i])]

\* str.strip(): leading and trailing whitespace removed.
RECURSIVE LStrip(_)
LStrip(s) == IF s # <<>> /\ Head(s) \in Whitespace THEN LStrip(Tail(s)) ELSE s
RECURSIVE RStrip(_)
RStrip(s) ==
    IF s # <<>> /\ s[Len(s)] \in Whitespace THEN RStrip(SubSeq(s, 1, Len(s) - 1)) ELSE s
Strip(s) == LStrip(RStrip(s))

\* BaseIngestor.validate_query.
validate_query(query) ==
    IF query = <<>> \/ Strip(query) = <<>> THEN FALSE
    ELSE Len(Strip(query)) >= 1

\* Variant: the pattern has no upper length limit.
TickerPatternMatch_unbounded(s) ==
    /\ Len(s) >= 1
    /\ \A i \in DOMAIN s : s[i] \in UpperLetters

\* re.compile(r'^[A-Z]{1,5}$').match(s), for s without a line break.
TickerPatternMatch(s) ==
    /\ Len(s) >= 1
    /\ Len(s) <= TickerMaxLen
    /\ \A i \in DOMAIN s : s[i] \in UpperLetters

\* MarketIngestor.can_handle, SECIngestor.can_handle, NewsIngestor.can_handle.
MarketCanHandle(query) ==
    IF ~validate_query(query) THEN FALSE ELSE TickerPatternMatch(Upper(Strip(query)))
SecCanHandle(query) ==
    IF ~validate_query(query) THEN FALSE ELSE TickerPatternMatch(Upper(Strip(query)))
NewsCanHandle(query) ==
    IF ~validate_query(query) THEN FALSE ELSE TRUE

\* All strings over Chars of at most n characters.
StringsUpTo(n) == UNION {[1..k -> Chars] : k \in 0..n}

\* can_handle of the three ingestors is asked about the query.
CanHandleAsk ==
    /\ q_pc = "ask"
    /\ q_answer' = [market |-> MarketCanHandle(q_query),
                    sec |-> SecCanHandle(q_query),
                    news |-> NewsCanHandle(q_query)]
    /\ q_pc' = "done"
    /\ UNCHANGED q_query
    /\ UNCHANGED <<appVars, retryVars, laterVars, marketVars, limiterVars, relevanceVars,
                   secVars, newsVars>>

\* Nothing is asked.
QueryIdle ==
    /\ q_pc = "off"
    /\ q_query = <<>>
    /\ q_answer = [market |-> FALSE, sec |-> FALSE, news |-> FALSE]

\* Any query of at most MaxQueryLen characters is about to be asked.
QueryCall ==
    /\ q_pc = "ask"
    /\ q_query \in StringsUpTo(MaxQueryLen)
    /\ q_answer = [market |-> FALSE, sec |-> FALSE, news |-> FALSE]

(***************************************************************************)
(* MarketIngestor (ingestors/market_ingestor.py).                          *)
(***************************************************************************)

\* self.min_request_interval, in clock ticks.
MinRequestInterval == 2

\* "max_retries" of the market configuration.
ConfigMaxRetries == 3

\* The four sub-fetches in the order ingest runs them.
SubFetches == <<"info", "history", "ratios", "earnings">>
SubFetchSet == {"info", "history", "ratios", "earnings"}

\* `except Exception as e` around a call of a collaborator: the clause
\* catches every error the collaborator raises; one it did not catch would
\* leave ingest as an exception.
ExceptClauseCatches_nothing(o) == FALSE

ExceptClauseCatches(o) == TRUE

\* What can happen to a sub-fetch:
\*   data      yfinance delivers and the sub-fetch builds its DataSource;
\*   empty     yfinance delivers nothing usable (empty dict or frame, None);
\*   transient the yfinance call raises now and would succeed if repeated;
\*   down      the yfinance call raises now and at every repetition;
\*   raises    yfinance delivers, building the DataSource raises.
\* fetch_ratios returns a dict of twelve keys whenever .info was read, so the
\* ratios sub-fetch is never empty.
Outcomes(kind) ==
    IF kind = "ratios" THEN {"data", "transient", "down", "raises"}
    ELSE {"data", "empty", "transient", "down", "raises"}

\* The yfinance call inside fetch_* raises; fetch_* catches it, logs it and
\* returns None.
FetchRaises(o) == o \in {"transient", "down"}

\* The queries given to ingest in this model.
MarketQueries == {<<"a">>, <<"A", "1">>, <<>>}

\* Where ingest goes after a sub-fetch.
NextSubFetch(kind) ==
    CASE kind = "info" -> "history"
      [] kind = "history" -> "ratios"
      [] kind = "ratios" -> "earnings"
      [] kind = "earnings" -> "return"

\* Variant: a sub-fetch that fails ends the collection.
AfterSubFetchFailure_abort(kind) == "return"

\* Where ingest goes after a sub-fetch that produced no source: the else
\* branch or the except branch only logs, the next sub-fetch follows.
AfterSubFetchFailure(kind) == NextSubFetch(kind)

\* The rate limiting at the head of _get_ticker_info, the only sub-fetch
\* that has it: the time slept before the request.
RateLimitSleep(kind, now, last) ==
    IF kind = "info" /\ now - last < MinRequestInterval
    THEN MinRequestInterval - (now - last)
    ELSE 0

\* How often a sub-fetch invokes its fetch_* function: once, through
\* loop.run_in_executor; max_retries is passed in and never used.
FetchInvocations(o, max_retries) == 1

\* The run id given to ingest in this model.
MarketRunIds == {2}

\* MarketIngestor.ingest up to the first sub-fetch.
MarketBegin ==
    /\ m_pc = "call"
    /\ IF ~MarketCanHandle(m_query) \/ ~m_yf
       THEN /\ m_pc' = "done"
            /\ m_result' = [kind |-> "return", val |-> <<>>]
       ELSE /\ m_pc' = "info"
            /\ m_result' = m_result
    /\ UNCHANGED <<m_query, m_run_id, m_yf, m_now, m_last, m_requests, m_attempts, m_outcome,
                   m_sources>>
    /\ UNCHANGED <<appVars, retryVars, laterVars, limiterVars, queryVars, relevanceVars,
                   secVars, newsVars>>

\* One sub-fetch: the rate limiting (ticker info only), the request in the
\* executor, which takes e ticks, and the append of the DataSource if one
\* was built. self.last_request_time is written by fetch_info alone, after
\* .info was read without an exception.
MarketSubFetch(o, e) ==
    /\ m_pc \in SubFetchSet
    /\ o \in Outcomes(m_pc)
    /\ LET sentAt == m_now + RateLimitSleep(m_pc, m_now, m_last)
       IN  /\ m_requests' = Append(m_requests, [kind |-> m_pc, at |-> sentAt])
           /\ m_now' = sentAt + e
           /\ m_last' = IF m_pc = "info" /\ ~FetchRaises(o) THEN sentAt + e ELSE m_last
    /\ m_attempts' = [m_attempts EXCEPT ![m_pc] = @ + FetchInvocations(o, ConfigMaxRetries)]
    /\ m_outcome' = [m_outcome EXCEPT ![m_pc] = o]
    /\ IF o \notin {"data", "empty"} /\ ~ExceptClauseCatches(o)
       THEN /\ m_sources' = m_sources
            /\ m_pc' = "done"
            /\ m_result' = [kind |-> "raise", val |-> <<>>]
       ELSE /\ IF o = "data"
               THEN /\ m_sources' = Append(m_sources, m_pc)
                    /\ m_pc' = NextSubFetch(m_pc)
               ELSE /\ m_sources' = m_sources
                    /\ m_pc' = AfterSubFetchFailure(m_pc)
            /\ m_result' = m_result
    /\ UNCHANGED <<m_query, m_run_id, m_yf>>
    /\ UNCHANGED <<appVars, retryVars, laterVars, limiterVars, queryVars, relevanceVars,
                   secVars, newsVars>>

\* log_ingestion_summary and `return sources`.
MarketReturn ==
    /\ m_pc = "return"
    /\ m_result' = [kind |-> "return", val |-> m_sources]
    /\ m_pc' = "done"
    /\ UNCHANGED <<m_query, m_run_id, m_yf, m_now, m_last, m_requests, m_attempts, m_outcome,
                   m_sources>>
    /\ UNCHANGED <<appVars, retryVars, laterVars, limiterVars, queryVars, relevanceVars,
                   secVars, newsVars>>

\* No call of MarketIngestor.ingest is in progress.
MarketIdle ==
    /\ m_pc = "off"
    /\ m_query = <<>>
    /\ m_run_id = 0
    /\ m_yf = TRUE
    /\ m_now = 0
    /\ m_last = 0
    /\ m_requests = <<>>
    /\ m_attempts = [k \in SubFetchSet |-> 0]
    /\ m_outcome = [k \in SubFetchSet |-> "none"]
    /\ m_sources = <<>>
    /\ m_result = [kind |-> "none", val |-> <<>>]

\* A call ingest(query, run_id) on an instance that is fresh
\* (last_request_time = 0) or has sent its last ticker-info request up to
\* MinRequestInterval ticks ago.
MarketCall ==
    /\ m_pc = "call"
    /\ m_query \in MarketQueries
    /\ m_run_id \in MarketRunIds
    /\ m_yf \in BOOLEAN
    /\ m_now = MinRequestInterval
    /\ m_last \in 0..MinRequestInterval
    /\ m_requests = <<>>
    /\ m_attempts = [k \in SubFetchSet |-> 0]
    /\ m_outcome = [k \in SubFetchSet |-> "none"]
    /\ m_sources = <<>>
    /\ m_result = [kind |-> "none", val |-> <<>>]

(***************************************************************************)
(* Concurrent _get_ticker_info calls on one MarketIngestor instance.       *)
(***************************************************************************)
Coroutines == 1..MaxCoroutines

\* The clock of this part stops here; every sleeper has woken by then.
LastTick == MinRequestInterval + MinRequestInterval + MaxElapse

\* Lines 155-158: the times are read and compared; a coroutine that is too
\* early awaits asyncio.sleep for the rest of the interval, another one goes
\* on to the executor. No lock is held and nothing is written.
TickerInfoCheck(p) ==
    /\ t_pc[p] = "check"
    /\ t_seen' = [t_seen EXCEPT ![p] = t_last]
    /\ IF t_now - t_last < MinRequestInterval
       THEN /\ t_wake' = [t_wake EXCEPT ![p] = t_now + (MinRequestInterval - (t_now - t_last))]
            /\ t_pc' = [t_pc EXCEPT ![p] = "sleep"]
       ELSE /\ t_wake' = t_wake
            /\ t_pc' = [t_pc EXCEPT ![p] = "fetch"]
    /\ UNCHANGED <<t_now, t_last, t_requests>>
    /\ UNCHANGED <<appVars, retryVars, laterVars, marketVars, queryVars, relevanceVars,
                   secVars, newsVars>>

\* asyncio.sleep returns once its time is over; the check is not repeated.
TickerInfoWake(p) ==
    /\ t_pc[p] = "sleep"
    /\ t_now >= t_wake[p]
    /\ t_pc' = [t_pc EXCEPT ![p] = "fetch"]
    /\ UNCHANGED <<t_seen, t_wake, t_now, t_last, t_requests>>
    /\ UNCHANGED <<appVars, retryVars, laterVars, marketVars, queryVars, relevanceVars,
                   secVars, newsVars>>

\* fetch_info in the executor: the request is sent; last_request_time is
\* written if .info was read without an exception.
TickerInfoFetch(p, ok) ==
    /\ t_pc[p] = "fetch"
    /\ t_requests' = Append(t_requests, [by |-> p, at |-> t_now, seen |-> t_seen[p]])
    /\ t_last' = IF ok THEN t_now ELSE t_last
    /\ t_pc' = [t_pc EXCEPT ![p] = "done"]
    /\ UNCHANGED <<t_seen, t_wake, t_now>>
    /\ UNCHANGED <<appVars, retryVars, laterVars, marketVars, queryVars, relevanceVars,
                   secVars, newsVars>>

\* Time passes.
TickerInfoTick ==
    /\ t_now < LastTick
    /\ \E p \in Coroutines : t_pc[p] \notin {"off", "done"}
    /\ t_now' = t_now + 1
    /\ UNCHANGED <<t_pc, t_seen, t_wake, t_last, t_requests>>
    /\ UNCHANGED <<appVars, retryVars, laterVars, marketVars, queryVars, relevanceVars,
                   secVars, newsVars>>

\* No coroutine is inside _get_ticker_info.
LimiterIdle ==
    /\ t_pc = [p \in Coroutines |-> "off"]
    /\ t_seen = [p \in Coroutines |-> 0]
    /\ t_wake = [p \in Coroutines |-> 0]
    /\ t_now = 0
    /\ t_last = 0
    /\ t_requests = <<>>

\* The coroutines have been started together (asyncio.gather) on an instance
\* that is fresh or has sent a request up to MinRequestInterval ticks ago.
LimiterCall ==
    /\ t_pc = [p \in Coroutines |-> "check"]
    /\ t_seen = [p \in Coroutines |-> 0]
    /\ t_wake = [p \in Coroutines |-> 0]
    /\ t_now = MinRequestInterval
    /\ t_last \in 0..MinRequestInterval
    /\ t_requests = <<>>

(***************************************************************************)
(* NewsIngestor (ingestors/news_ingestor.py): relevance of a feed entry.   *)
(* A text is the set of its lower-cased words and phrases; `term in text`  *)
(* is membership. An absent or empty attribute is the empty set.           *)
(***************************************************************************)

\* The queries of this part, with what Python says about each of them.
NewsQueries == {"AAPL", "aapl", "acme", "ACMECORP", ""}
QueryLower(q) ==
    CASE q = "AAPL" -> "aapl"
      [] q = "ACMECORP" -> "acmecorp"
      [] OTHER -> q
QueryIsUpper(q) == q \in {"AAPL", "ACMECORP"}
QueryLen(q) ==
    CASE q = "" -> 0
      [] q = "ACMECORP" -> 8
      [] OTHER -> 4

\* company_names: the aliases of the tickers the method knows.
CompanyNames(query_lower) ==
    CASE query_lower = "aapl" -> {"apple", "apple inc", "iphone", "macbook", "ipad"}
      [] query_lower = "tsla" -> {"tesla", "tesla inc", "electric vehicle", "ev"}
      [] query_lower = "msft" -> {"microsoft", "microsoft corp", "windows", "azure"}
      [] OTHER -> {}

\* The keyword list used for ticker-like queries and the longer one of the
\* last check.
TickerBusinessKeywords ==
    {"stock", "market", "earnings", "revenue", "profit", "financial", "business",
     "company", "trading"}
BusinessKeywords == TickerBusinessKeywords \cup {"economy", "investment"}

\* len(query) <= 5 and query.isupper()
LikelyTicker(query) == QueryLen(query) <= TickerMaxLen /\ QueryIsUpper(query)

\* search_terms: the lower-cased query and the aliases of a known ticker.
SearchTerms(query) == {QueryLower(query)} \cup CompanyNames(QueryLower(query))

\* The check made on the title and again on the summary.
TextMatches(text, query) ==
    /\ text # {}
    /\ \/ text \cap SearchTerms(query) # {}
       \/ LikelyTicker(query) /\ text \cap TickerBusinessKeywords # {}

\* NewsIngestor._is_relevant_article.
IsRelevantArticle(entry, query) ==
    IF query = "" THEN TRUE
    ELSE IF TextMatches(entry.title, query) THEN TRUE
    ELSE IF TextMatches(entry.summary, query) THEN TRUE
    ELSE IF QueryLower(query) \in entry.tags THEN TRUE
    ELSE IF LikelyTicker(query) THEN TRUE
    ELSE IF entry.title \cap BusinessKeywords # {} THEN TRUE
    ELSE IF entry.summary \cap BusinessKeywords # {} THEN TRUE
    ELSE FALSE

\* The words an entry of the model can carry, and the entries: each of
\* title, summary and tags is absent or holds one of the words.
EntryWords == {"aapl", "acme", "apple", "stock", "economy", "weather"}
EntryTexts == {{}} \cup {{w} : w \in EntryWords}
Entries == [title : EntryTexts, summary : EntryTexts, tags : EntryTexts]

\* _is_relevant_article is called.
RelevanceAsk ==
    /\ a_pc = "ask"
    /\ a_relevant' = IsRelevantArticle(a_entry, a_query)
    /\ a_pc' = "done"
    /\ UNCHANGED <<a_query, a_entry>>
    /\ UNCHANGED <<appVars, retryVars, laterVars, marketVars, limiterVars, queryVars,
                   secVars, newsVars>>

\* No call is in progress.
RelevanceIdle ==
    /\ a_pc = "off"
    /\ a_query = ""
    /\ a_entry = [title |-> {}, summary |-> {}, tags |-> {}]
    /\ a_relevant = FALSE

\* A call with any entry and any query of the model.
RelevanceCall ==
    /\ a_pc = "ask"
    /\ a_query \in NewsQueries
    /\ a_entry \in Entries
    /\ a_relevant = FALSE

(***************************************************************************)
(* BaseIngestor.create_source and SECIngestor (ingestors/sec_ingestor.py). *)
(***************************************************************************)

\* Python's None, for an optional argument that was not passed.
None == <<>>

\* hashlib.md5(content.encode()).hexdigest()
Md5(content) == <<"md5", content>>

\* The parameter of create_source that has no default value.
CreateSourceRequired == {"run_id"}

\* An optional keyword argument of a call, or None.
Arg(kwargs, name) == IF name \in DOMAIN kwargs THEN kwargs[name] ELSE None

\* Variant: the DataSource is built without the run id it was given.
create_source_norun(source_type, kwargs) ==
    IF ~(CreateSourceRequired \subseteq DOMAIN kwargs)
    THEN [ok |-> FALSE, source |-> None]
    ELSE [ok |-> TRUE,
          source |-> [run_id |-> 0,
                      type |-> source_type,
                      raw_content |-> Arg(kwargs, "raw_content"),
                      checksum |-> Arg(kwargs, "checksum")]]

\* self.create_source(**kwargs): a call without run_id is a TypeError
\* (missing required positional argument); otherwise the DataSource.
create_source(source_type, kwargs) ==
    IF ~(CreateSourceRequired \subseteq DOMAIN kwargs)
    THEN [ok |-> FALSE, source |-> None]
    ELSE [ok |-> TRUE,
          source |-> [run_id |-> kwargs.run_id,
                      type |-> source_type,
                      raw_content |-> Arg(kwargs, "raw_content"),
                      checksum |-> Arg(kwargs, "checksum")]]

\* The DataSource a sub-fetch of MarketIngestor that got data returns: create_source with
\* run_id, url, title, published_at, raw_content (the formatted text, never
\* empty) and metadata; no checksum is passed.
MarketSource(kind) ==
    create_source("market_data",
                  [run_id |-> m_run_id, url |-> kind, title |-> kind,
                   published_at |-> "now", raw_content |-> kind,
                   metadata |-> "metadata"]).source

\* The list ingest returned, as DataSource objects.
MarketEmitted == [i \in 1..Len(m_result.val) |-> MarketSource(m_result.val[i])]

\* "filing_types" of the SEC configuration.
FilingTypes == <<"10-K", "10-Q">>

\* The queries and run ids given to ingest in this model.
SecQueries == {<<"a">>, <<"A", "1">>, <<>>}
SecRunIds == {1, 2}

\* A file in the download directory: its text, and whether read_text works.
FilingFiles == [text : {"filing text"}, readable : BOOLEAN]

\* What a download can leave behind: up to MaxFiles files.
FileLists == UNION {[1..k -> FilingFiles] : k \in 0..MaxFiles}

\* SECIngestor._process_filing_file: the text is read, the checksum is
\* computed, create_source is called with url, title, published_at,
\* raw_content and metadata; every exception ends in `return None`. The
\* Optional[DataSource] is a sequence of no or one element.
ProcessFilingFile(file) ==
    IF ~file.readable THEN <<>>
    ELSE LET content == file.text
             checksum == Md5(content)
             made == create_source("sec_filing",
                                   [url |-> "file", title |-> "title",
                                    published_at |-> None, raw_content |-> content,
                                    metadata |-> "metadata"])
         IN  IF made.ok THEN <<made.source>> ELSE <<>>

\* The loop of _download_filings over the downloaded files: the sources of
\* those that were processed, in order.
RECURSIVE ProcessFiles(_)
ProcessFiles(files) ==
    IF files = <<>> THEN <<>>
    ELSE ProcessFilingFile(Head(files)) \o ProcessFiles(Tail(files))

\* Variant: a filing type whose download fails ends the loop.
AfterFilingTypeFailure_abort(i) == Len(FilingTypes) + 1

\* The loop of ingest after a filing type whose download failed:
\* _download_filings has caught everything and returned its list, the loop
\* goes on with the next type.
AfterFilingTypeFailure(i) == i + 1

\* SECIngestor.ingest up to the loop.
SecBegin ==
    /\ s_pc = "call"
    /\ IF ~SecCanHandle(s_query) \/ ~s_downloader
       THEN /\ s_pc' = "done"
            /\ s_result' = [kind |-> "return", val |-> <<>>]
       ELSE /\ s_pc' = "types"
            /\ s_result' = s_result
    /\ UNCHANGED <<s_query, s_run_id, s_downloader, s_type, s_attempted, s_delivered,
                   s_downloads, s_sources>>
    /\ UNCHANGED <<appVars, retryVars, laterVars, marketVars, limiterVars, queryVars,
                   relevanceVars, newsVars>>

\* One pass of `for filing_type in filing_types`: _download_filings calls
\* downloader.get in the executor; if that raises, download_filings logs it
\* and returns []; otherwise the files found are processed one by one.
SecFilingType(failed, files) ==
    /\ s_pc = "types"
    /\ s_type <= Len(FilingTypes)
    /\ s_attempted' = Append(s_attempted, FilingTypes[s_type])
    /\ s_downloads' = s_downloads + 1
    /\ IF failed
       THEN /\ s_delivered' = Append(s_delivered, [failed |-> TRUE, files |-> <<>>])
            /\ s_sources' = s_sources
            /\ IF ExceptClauseCatches("download")
               THEN /\ s_type' = AfterFilingTypeFailure(s_type)
                    /\ UNCHANGED <<s_pc, s_result>>
               ELSE /\ s_type' = s_type
                    /\ s_pc' = "done"
                    /\ s_result' = [kind |-> "raise", val |-> <<>>]
       ELSE /\ s_delivered' = Append(s_delivered, [failed |-> FALSE, files |-> files])
            /\ s_sources' = s_sources \o ProcessFiles(files)
            /\ s_type' = s_type + 1
            /\ UNCHANGED <<s_pc, s_result>>
    /\ UNCHANGED <<s_query, s_run_id, s_downloader>>
    /\ UNCHANGED <<appVars, retryVars, laterVars, marketVars, limiterVars, queryVars,
                   relevanceVars, newsVars>>

\* log_ingestion_summary and `return sources`.
SecReturn ==
    /\ s_pc = "types"
    /\ s_type > Len(FilingTypes)
    /\ s_result' = [kind |-> "return", val |-> s_sources]
    /\ s_pc' = "done"
    /\ UNCHANGED <<s_query, s_run_id, s_downloader, s_type, s_attempted, s_delivered,
                   s_downloads, s_sources>>
    /\ UNCHANGED <<appVars, retryVars, laterVars, marketVars, limiterVars, queryVars,
                   relevanceVars, newsVars>>

\* No call of SECIngestor.ingest is in progress.
SecIdle ==
    /\ s_pc = "off"
    /\ s_query = <<>>
    /\ s_run_id = 0
    /\ s_downloader = TRUE
    /\ s_type = 1
    /\ s_attempted = <<>>
    /\ s_delivered = <<>>
    /\ s_downloads = 0
    /\ s_sources = <<>>
    /\ s_result = [kind |-> "none", val |-> <<>>]

\* A call ingest(query, run_id).
SecCall ==
    /\ s_pc = "call"
    /\ s_query \in SecQueries
    /\ s_run_id \in SecRunIds
    /\ s_downloader \in BOOLEAN
    /\ s_type = 1
    /\ s_attempted = <<>>
    /\ s_delivered = <<>>
    /\ s_downloads = 0
    /\ s_sources = <<>>
    /\ s_result = [kind |-> "none", val |-> <<>>]

(***************************************************************************)
(* NewsIngestor.ingest (ingestors/news_ingestor.py).                       *)
(***************************************************************************)

\* "max_articles" of the news configuration.
MaxArticles == 30

\* The queries and run ids given to ingest in this model.
NewsIngestQueries == {"AAPL", "acme", ""}
NewsRunIds == {1}

\* The values of max_articles given to ingest: kwargs.get("max_articles",
\* self.config.get("max_articles", 20)): small ones and the configured one.
NewsMaxArticles == {1, MaxCap, MaxArticles}

\* What can happen to one feed: it is parsed; feedparser.parse raises inside
\* parse_feed; something raises out of _process_rss_feed into the loop of
\* ingest.
FeedFailures == {"no", "parse", "loop"}

\* `continue` in the except of the loop over the feeds: the next feed.
AfterFeedFailure_abort(i) == MaxFeeds + 1

AfterFeedFailure(i) == i + 1

\* A query of the table written in the characters of Chars: every letter as
\* "A" or "a".
QueryShape(q) == [i \in 1..QueryLen(q) |-> IF QueryIsUpper(q) THEN "A" ELSE "a"]

\* The entries a feed of this model can deliver: one about the weather and
\* one about Apple; `broken` entries make _process_article raise inside.
FeedEntries ==
    {[entry |-> [title |-> {"weather"}, summary |-> {}, tags |-> {}], broken |-> FALSE],
     [entry |-> [title |-> {"apple"}, summary |-> {"stock"}, tags |-> {}], broken |-> FALSE],
     [entry |-> [title |-> {"apple"}, summary |-> {"stock"}, tags |-> {}], broken |-> TRUE]}
EntryLists == UNION {[1..k -> FeedEntries] : k \in 0..MaxEntries}

\* feed.entries[:max_articles] and sources[:max_articles]
Truncated(seq, n) == SubSeq(seq, 1, IF Len(seq) < n THEN Len(seq) ELSE n)

\* NewsIngestor._process_article: the DataSource of an entry, or None when
\* anything inside raised (a sequence of one or no element).
ProcessArticle(e, run_id) ==
    IF e.broken THEN <<>>
    ELSE LET content == e.entry
             made == create_source("news_article",
                                   [run_id |-> run_id, url |-> "link",
                                    title |-> e.entry.title, published_at |-> None,
                                    checksum |-> Md5(content), raw_content |-> content,
                                    metadata |-> "metadata"])
         IN  IF made.ok THEN <<made.source>> ELSE <<>>

\* The loop of _process_rss_feed over the entries: the sources of those that
\* are relevant and were processed, in order.
RECURSIVE ProcessEntries(_, _, _)
ProcessEntries(entries, query, run_id) ==
    IF entries = <<>> THEN <<>>
    ELSE LET e == Head(entries)
             rest == ProcessEntries(Tail(entries), query, run_id)
         IN  IF IsRelevantArticle(e.entry, query)
             THEN ProcessArticle(e, run_id) \o rest
             ELSE rest

\* NewsIngestor.ingest up to the loop: only the session is checked;
\* can_handle is not called.
NewsBegin ==
    /\ n_pc = "call"
    /\ IF ~n_session
       THEN /\ n_pc' = "done"
            /\ n_result' = [kind |-> "return", val |-> <<>>]
       ELSE /\ n_pc' = "feeds"
            /\ n_result' = n_result
    /\ UNCHANGED <<n_query, n_run_id, n_session, n_max_articles, n_delivered,
                   n_feed, n_fetches, n_sources>>
    /\ UNCHANGED <<appVars, retryVars, laterVars, marketVars, limiterVars, queryVars,
                   relevanceVars, secVars>>

\* One pass of `for feed_url in rss_feeds`: feedparser.parse in the
\* executor; if it raises, parse_feed logs it and returns []; the entries,
\* cut to max_articles // len(rss_feeds), are filtered and processed.
NewsFeed(failed, entries) ==
    /\ n_pc = "feeds"
    /\ n_feed <= MaxFeeds
    /\ failed # "no" => entries = <<>>
    /\ n_fetches' = n_fetches + 1
    /\ n_delivered' = Append(n_delivered, [failed |-> failed, entries |-> entries])
    /\ IF failed # "no" /\ ~ExceptClauseCatches(failed)
       THEN /\ n_sources' = n_sources
            /\ n_feed' = n_feed
            /\ n_pc' = "done"
            /\ n_result' = [kind |-> "raise", val |-> <<>>]
       ELSE /\ IF failed = "loop"
               THEN /\ n_sources' = n_sources
                    /\ n_feed' = AfterFeedFailure(n_feed)
               ELSE /\ LET got == IF failed = "parse" THEN <<>>
                                  ELSE Truncated(entries, n_max_articles \div MaxFeeds)
                       IN  n_sources' = n_sources \o ProcessEntries(got, n_query, n_run_id)
                    /\ n_feed' = n_feed + 1
            /\ UNCHANGED <<n_pc, n_result>>
    /\ UNCHANGED <<n_query, n_run_id, n_session, n_max_articles>>
    /\ UNCHANGED <<appVars, retryVars, laterVars, marketVars, limiterVars, queryVars,
                   relevanceVars, secVars>>

\* sources[:max_articles], log_ingestion_summary and `return sources`.
NewsReturn ==
    /\ n_pc = "feeds"
    /\ n_feed > MaxFeeds
    /\ n_result' = [kind |-> "return", val |-> Truncated(n_sources, n_max_articles)]
    /\ n_pc' = "done"
    /\ UNCHANGED <<n_query, n_run_id, n_session, n_max_articles, n_delivered,
                   n_feed, n_fetches, n_sources>>
    /\ UNCHANGED <<appVars, retryVars, laterVars, marketVars, limiterVars, queryVars,
                   relevanceVars, secVars>>

\* No call of NewsIngestor.ingest is in progress.
NewsIdle ==
    /\ n_pc = "off"
    /\ n_query = ""
    /\ n_run_id = 0
    /\ n_session = TRUE
    /\ n_max_articles = MaxArticles
    /\ n_delivered = <<>>
    /\ n_feed = 1
    /\ n_fetches = 0
    /\ n_sources = <<>>
    /\ n_result = [kind |-> "none", val |-> <<>>]

\* A call ingest(query, run_id) with MaxFeeds feeds configured.
NewsCall ==
    /\ n_pc = "call"
    /\ n_query \in NewsIngestQueries
    /\ n_run_id \in NewsRunIds
    /\ n_session \in BOOLEAN
    /\ n_max_articles \in NewsMaxArticles
    /\ n_delivered = <<>>
    /\ n_feed = 1
    /\ n_fetches = 0
    /\ n_sources = <<>>
    /\ n_result = [kind |-> "none", val |-> <<>>]

(***************************************************************************)
(* NewsIngestor._process_article with _scrape_article_content and          *)
(* _check_robots_txt.                                                      *)
(***************************************************************************)

\* "respect_robots_txt" of the news configuration.
RespectRobotsTxt == TRUE

\* What fetching <site>/robots.txt can give: no response, a status other
\* than 200, rules that allow, rules with "disallow: /" for every agent, an
\* exception inside _check_robots_txt.
RobotsOutcomes == {"unreachable", "missing", "allow", "disallow", "raises"}

\* _check_robots_txt returns False only for a disallow rule it has read.
RobotsAllows(o) == o # "disallow"

\* What fetching the article page can give: no response, a status other than
\* 200, a page without text, a page with text, an exception on the way.
PageOutcomes == {"unreachable", "status", "notext", "text", "raises"}

\* What _scrape_article_content returns after the page fetch.
PageText(o) == IF o = "text" THEN "page" ELSE ""

\* The entries given to _process_article: with or without a link; without
\* the attribute summary, with an empty one, with a text; `broken` ones
\* make building the metadata raise.
ArticleEntries ==
    [link : BOOLEAN, summary : {<<>>, <<"">>, <<"summary">>}, broken : BOOLEAN]

\* `if not content and hasattr(entry, 'summary'): content = entry.summary`
FallbackContent_scraped(content, summary) == content

FallbackContent(content, summary) ==
    IF content = "" /\ summary # <<>> THEN summary[1] ELSE content

\* `hashlib.md5(content.encode()).hexdigest() if content else None`
ArticleChecksum(content) == IF content # "" THEN Md5(content) ELSE None

\* _process_article up to the scraping: the page is scraped only for an
\* entry with a link, and _scrape_article_content gives "" at once without a
\* session.
ArticleBegin ==
    /\ p_pc = "call"
    /\ IF p_entry.link /\ RespectRobotsTxt /\ p_session
       THEN p_pc' = "robots"
       ELSE p_pc' = "source"
    /\ p_content' = ""
    /\ UNCHANGED <<p_entry, p_session, p_robots, p_page, p_requests, p_result>>
    /\ UNCHANGED <<appVars, retryVars, callVars, dbVars, taVars, endVars>>

\* `await self._check_robots_txt(url)`: robots.txt is fetched and read.
ArticleRobots(o) ==
    /\ p_pc = "robots"
    /\ p_requests' = Append(p_requests, "robots")
    /\ p_robots' = o
    /\ IF RobotsAllows(o) THEN p_pc' = "page" ELSE p_pc' = "source"
    /\ UNCHANGED <<p_entry, p_session, p_page, p_content, p_result>>
    /\ UNCHANGED <<appVars, retryVars, callVars, dbVars, taVars, endVars>>

\* `await self._fetch_url(url, timeout)` and _extract_article_content.
ArticlePage(o) ==
    /\ p_pc = "page"
    /\ p_requests' = Append(p_requests, "page")
    /\ p_page' = o
    /\ p_content' = PageText(o)
    /\ p_pc' = "source"
    /\ UNCHANGED <<p_entry, p_session, p_robots, p_result>>
    /\ UNCHANGED <<appVars, retryVars, callVars, dbVars, taVars, endVars>>

\* The rest of _process_article: the summary instead of no content, the
\* checksum, the metadata and create_source; None when anything raised.
ArticleSource ==
    /\ p_pc = "source"
    /\ LET content == FallbackContent(p_content, p_entry.summary)
           made == create_source("news_article",
                                 [run_id |-> 1, url |-> "link",
                                  title |-> "title", published_at |-> None,
                                  checksum |-> ArticleChecksum(content),
                                  raw_content |-> content,
                                  metadata |-> "metadata"])
       IN  /\ p_content' = content
           /\ p_result' = [kind |-> "return",
                           val |-> IF p_entry.broken \/ ~made.ok THEN <<>>
                                   ELSE <<made.source>>]
    /\ p_pc' = "done"
    /\ UNCHANGED <<p_entry, p_session, p_robots, p_page, p_requests>>
    /\ UNCHANGED <<appVars, retryVars, callVars, dbVars, taVars, endVars>>

\* No call of _process_article is in progress.
ArticleIdle ==
    /\ p_pc = "off"
    /\ p_entry = [link |-> FALSE, summary |-> <<>>, broken |-> FALSE]
    /\ p_session = TRUE
    /\ p_robots = "none"
    /\ p_page = "none"
    /\ p_requests = <<>>
    /\ p_content = ""
    /\ p_result = [kind |-> "none", val |-> <<>>]

\* A call _process_article(entry, query, run_id).
ArticleCall ==
    /\ p_pc = "call"
    /\ p_entry \in ArticleEntries
    /\ p_session \in BOOLEAN
    /\ p_robots = "none"
    /\ p_page = "none"
    /\ p_requests = <<>>
    /\ p_content = ""
    /\ p_result = [kind |-> "none", val |-> <<>>]

(***************************************************************************)
(* DatabaseManager.add_source and get_sources (models/database.py).        *)
(***************************************************************************)

\* The values of SourceType.
SourceTypeValues == {"sec_filing", "news_article", "market_data", "rss_feed"}

\* SourceType(value): the member with that value, or a ValueError (no
\* element).
SourceTypeMember(v) == IF v \in SourceTypeValues THEN <<v>> ELSE <<>>

\* The datetimes of this model: [day, us, tz], with or without microseconds,
\* naive (tz = <<>>) or aware.
Datetimes ==
    {[day |-> "2024-01-02", us |-> 0, tz |-> <<>>],
     [day |-> "2024-01-02", us |-> 5, tz |-> <<>>],
     [day |-> "2024-01-03", us |-> 0, tz |-> <<"+00:00">>]}

\* sqlite3's adapter for datetime, val.isoformat(" "): the date, a blank, the
\* time, the microseconds unless they are 0, the offset of an aware one.
IsoFormat(dt) ==
    <<dt.day, " ", "10:00:00">>
        \o (IF dt.us = 0 THEN <<>> ELSE <<".", dt.us>>)
        \o dt.tz

\* datetime.fromisoformat: reads the parts back.
FromIsoFormat(s) ==
    LET hasUs == Len(s) >= 5 /\ s[4] = "."
        rest == IF hasUs THEN SubSeq(s, 6, Len(s)) ELSE SubSeq(s, 4, Len(s))
    IN  [day |-> s[1], us |-> IF hasUs THEN s[5] ELSE 0, tz |-> rest]

\* A metadata dict is a set of <<key, value>> pairs with str keys; json.dumps
\* writes a str as a JSON string and an int as a JSON number.
JsonEncode(x) == IF x.t = "str" THEN [j |-> "string", s |-> x.v]
                 ELSE [j |-> "number", s |-> x.v]

\* json.loads reads a JSON string as a str and a JSON number as an int.
JsonDecode(y) == IF y.j = "string" THEN StrVal(y.s) ELSE IntVal(y.s)

\* _dict_to_json: json.dumps(data) if data else "{}".
DictToJson(data) ==
    IF data = {} THEN {} ELSE {<<p[1], JsonEncode(p[2])>> : p \in data}

\* _json_to_dict: json.loads(json_str) if json_str else {}.
JsonToDict(json) == {<<p[1], JsonDecode(p[2])>> : p \in json}

\* The DataSource objects given to add_source in this model; an optional
\* field is a sequence of no or one element.
StoreSources ==
    {[type |-> "news_article", url |-> <<"http://a">>, title |-> <<"A">>,
      published_at |-> <<dt>>, checksum |-> <<"c1">>, raw_content |-> <<"text">>,
      metadata |-> {<<"query", StrVal("AAPL")>>}] : dt \in Datetimes}
    \cup
    {[type |-> "market_data", url |-> <<>>, title |-> <<>>,
      published_at |-> <<>>, checksum |-> <<>>, raw_content |-> <<"info">>,
      metadata |-> {<<"ticker", StrVal("AAPL")>>, <<"data_points", IntVal(1)>>}],
     [type |-> "sec_filing", url |-> <<"http://a">>, title |-> <<"B">>,
      published_at |-> <<>>, checksum |-> <<"c2">>, raw_content |-> <<"other">>,
      metadata |-> {}]}

StoreRunIds == {1, 2}

\* The row add_source inserts, with the id sqlite gives it: the value of the
\* type, the adapted datetime, the metadata as JSON; no column is unique
\* but id.
SourceRow(id, run_id, src) ==
    [id |-> id, run_id |-> run_id, type |-> src.type, url |-> src.url,
     title |-> src.title,
     published_at |-> IF src.published_at = <<>> THEN <<>>
                      ELSE <<IsoFormat(src.published_at[1])>>,
     checksum |-> src.checksum, raw_content |-> src.raw_content,
     metadata |-> DictToJson(src.metadata)]

\* The DataSource get_sources builds from a row.
RowToDataSource(row) ==
    [id |-> row.id, run_id |-> row.run_id, type |-> SourceTypeMember(row.type)[1],
     url |-> row.url, title |-> row.title,
     published_at |-> IF row.published_at = <<>> THEN <<>>
                      ELSE <<FromIsoFormat(row.published_at[1])>>,
     checksum |-> row.checksum, raw_content |-> row.raw_content,
     metadata |-> JsonToDict(row.metadata)]

\* SELECT ... FROM sources WHERE run_id = ?
RowsOfRun_all(rows, run_id) == rows

RowsOfRun(rows, run_id) == SelectSeq(rows, LAMBDA r : r.run_id = run_id)

\* get_sources(run_id): the DataSource of every selected row; [] when
\* building one of them raised.
get_sources(rows, run_id) ==
    LET sel == RowsOfRun(rows, run_id)
    IN  IF \E i \in 1..Len(sel) : SourceTypeMember(sel[i].type) = <<>>
        THEN <<>>
        ELSE [i \in 1..Len(sel) |-> RowToDataSource(sel[i])]

\* add_source(run_id, ...) inserts the row and returns, or sqlite raises and
\* nothing is inserted.
StoreAdd(run_id, src, raised) ==
    /\ Len(d_rows) < MaxRows
    /\ IF raised
       THEN UNCHANGED <<d_rows, d_added>>
       ELSE /\ d_rows' = Append(d_rows, SourceRow(Len(d_rows) + 1, run_id, src))
            /\ d_added' = Append(d_added, [run_id |-> run_id, source |-> src])
    /\ d_read' = [kind |-> "none", run_id |-> 0, val |-> <<>>]
    /\ UNCHANGED <<appVars, retryVars, callVars, articleVars, taVars, endVars>>

\* get_sources(run_id)
StoreGet(run_id) ==
    /\ d_read' = [kind |-> "return", run_id |-> run_id,
                  val |-> get_sources(d_rows, run_id)]
    /\ UNCHANGED <<d_rows, d_added>>
    /\ UNCHANGED <<appVars, retryVars, callVars, articleVars, taVars, endVars>>

\* The table is empty and nothing was read.
StoreIdle ==
    /\ d_rows = <<>>
    /\ d_added = <<>>
    /\ d_read = [kind |-> "none", run_id |-> 0, val |-> <<>>]

(***************************************************************************)
(* TechnicalAnalyzer (core/technical_analysis.py).                         *)
(***************************************************************************)

\* The windows of the rolling means and the thresholds of the rules.
Sma20Window == 20
Sma50Window == 50
RsiWindow == 14
VolumeTail == 5
RsiOverbought == 70
RsiOversold == 30

\* A value of a series is a fraction <<numerator, denominator>> with a
\* positive denominator, inf (denominator 0) or NaN.
NaN == <<>>
Inf == <<1, 0>>
Num(x) == <<x, 1>>

\* pd.isna
IsNa(x) == x = NaN

\* Variant: a >= b.
Gt_orEqual(a, b) ==
    /\ a # <<>> /\ b # <<>>
    /\ a[1] * b[2] >= b[1] * a[2]

\* a > b for two values; a comparison with NaN is False.
Gt(a, b) ==
    /\ ~IsNa(a) /\ ~IsNa(b)
    /\ a[1] * b[2] > b[1] * a[2]

\* The shapes of the column Close and their value at row k of n.
CloseShapes == {"flat", "up", "down", "zigzag", "jump", "climb", "slide"}

Close(shape, k, n) ==
    CASE shape = "flat" -> 10
      [] shape = "up" -> 10 + k
      [] shape = "down" -> 70 - k
      [] shape = "zigzag" -> IF k % 2 = 1 THEN 10 ELSE 12
      [] shape = "jump" -> IF k = n THEN 40 ELSE 10 + (k % 2)
      [] shape = "climb" -> 10 + 4 * ((k - 1) \div 2) + (IF k % 2 = 0 THEN 7 ELSE 0)
      [] shape = "slide" -> 130 - 4 * ((k - 1) \div 2) - (IF k % 2 = 0 THEN 7 ELSE 0)

\* The shapes of the column Volume and their value at row k of n.
VolumeShapes == {"flat", "surge", "dry", "swell", "ebb"}

Volume(shape, k, n) ==
    CASE shape = "flat" -> 10
      [] shape = "surge" -> IF k > n - VolumeTail THEN 40 ELSE 10
      [] shape = "dry" -> IF k > n - VolumeTail THEN 1 ELSE 10
      [] shape = "swell" -> IF k > n - VolumeTail THEN 30 ELSE 10
      [] shape = "ebb" -> IF k > n - VolumeTail THEN 4 ELSE 10

\* The sum of f[a..b].
RECURSIVE SumOf(_, _, _)
SumOf(f, a, b) == IF a > b THEN 0 ELSE f[b] + SumOf(f, a, b - 1)

\* Variant: the mean of the rows there are (min_periods = 1).
RollingMean_partial(f, w, k) ==
    IF k < w THEN <<SumOf(f, 1, k), k>> ELSE <<SumOf(f, k - w + 1, k), w>>

\* series.rolling(window=w).mean() at row k: NaN until w rows exist.
RollingMean(f, w, k) ==
    IF k < w THEN NaN ELSE <<SumOf(f, k - w + 1, k), w>>

\* delta.where(delta > 0, 0) and -delta.where(delta < 0, 0) at row k: the
\* first delta is NaN, which where() replaces by 0 like every delta that
\* fails the condition.
Gain(f, k) == IF k > 1 /\ f[k] - f[k - 1] > 0 THEN f[k] - f[k - 1] ELSE 0
Loss(f, k) == IF k > 1 /\ f[k] - f[k - 1] < 0 THEN f[k - 1] - f[k] ELSE 0

\* gain / loss of two rolling means over the same window: 0 / 0 is NaN and
\* x / 0 is inf.
RelativeStrength(g, l) ==
    IF IsNa(g) \/ IsNa(l) THEN NaN
    ELSE IF l[1] = 0 THEN (IF g[1] = 0 THEN NaN ELSE Inf)
    ELSE <<g[1], l[1]>>

\* 100 - (100 / (1 + rs))
RsiOf(rs) ==
    IF IsNa(rs) THEN NaN
    ELSE IF rs[2] = 0 THEN Num(100)
    ELSE <<100 * rs[1], rs[1] + rs[2]>>

\* indicators['rsi'] at row k.
Rsi(f, n, k) ==
    LET gains == [j \in 1..n |-> Gain(f, j)]
        losses == [j \in 1..n |-> Loss(f, j)]
    IN  RsiOf(RelativeStrength(RollingMean(gains, RsiWindow, k),
                               RollingMean(losses, RsiWindow, k)))

\* Where the last close lies against the Bollinger bands of the last row,
\* sma_20 +- 2 * std_20 with the sample standard deviation of the window:
\* "nan" until the window is full.
BollingerPosition(f, n) ==
    IF n < Sma20Window THEN "nan"
    ELSE LET w == Sma20Window
             S == SumOf(f, n - w + 1, n)
             Q == SumOf([j \in 1..n |-> f[j] * f[j]], n - w + 1, n)
             d == w * f[n] - S
             \* (2 * std_20)^2 * w^2 * (w - 1) = 4 * w * (w * Q - S^2)
             band == 4 * w * (w * Q - S * S)
         IN  IF d > 0 /\ d * d * (w - 1) > band THEN "above"
             ELSE IF d < 0 /\ d * d * (w - 1) > band THEN "below"
             ELSE "within"

\* _calculate_indicators: every series is computed from Close but
\* volume_sma, which is computed last; without the column Volume the
\* KeyError is caught and the dict holds what was computed before. The
\* exponential means are defined at every row; their values are not
\* computed here.
CalculateIndicators ==
    /\ i_pc = "call"
    /\ LET f == [k \in 1..i_n |-> Close(i_close, k, i_n)]
       IN  i_indicators' =
               [sma_20 |-> [k \in 1..i_n |-> RollingMean(f, Sma20Window, k)],
                sma_50 |-> [k \in 1..i_n |-> RollingMean(f, Sma50Window, k)],
                rsi |-> [k \in 1..i_n |-> Rsi(f, i_n, k)],
                macd |-> TRUE,
                bb |-> BollingerPosition(f, i_n),
                volume_sma |-> i_volume # "missing"]
    /\ i_pc' = "insights"
    /\ UNCHANGED <<i_n, i_close, i_volume, i_insights>>
    /\ UNCHANGED <<appVars, retryVars, callVars, articleVars, dbVars, endVars>>

\* One entry of the list of insights.
Insight(type, signal) == [type |-> type, signal |-> signal]

\* The Trend rule.
TrendInsight(ind, n) ==
    IF ~IsNa(ind.sma_20[n]) /\ ~IsNa(ind.sma_50[n])
    THEN <<Insight("Trend", IF Gt(ind.sma_20[n], ind.sma_50[n])
                            THEN "Bullish" ELSE "Bearish")>>
    ELSE <<>>

\* The RSI rule.
MomentumInsight(ind, n) ==
    IF ~IsNa(ind.rsi[n])
    THEN <<Insight("Momentum",
                   IF Gt(ind.rsi[n], Num(RsiOverbought)) THEN "Overbought"
                   ELSE IF Gt(Num(RsiOversold), ind.rsi[n]) THEN "Oversold"
                   ELSE "Neutral")>>
    ELSE <<>>

\* The MACD rule: both lines are defined at every row.
MacdInsight(ind, above) ==
    IF ind.macd THEN <<Insight("MACD", IF above THEN "Bullish" ELSE "Bearish")>>
    ELSE <<>>

\* The Volume rule: the mean of the last five rows against the mean of all.
VolumeInsight(shape, n) ==
    LET v == [k \in 1..n |-> Volume(shape, k, n)]
        t == IF n < VolumeTail THEN n ELSE VolumeTail
        recent == SumOf(v, n - t + 1, n)
        all == SumOf(v, 1, n)
    IN  <<Insight("Volume",
                  IF 2 * recent * n > 3 * all * t THEN "High"
                  ELSE IF 2 * recent * n < all * t THEN "Low"
                  ELSE "Normal")>>

\* The Bollinger Bands rule.
BollingerInsight(ind) ==
    IF ind.bb = "nan" THEN <<>>
    ELSE <<Insight("Bollinger Bands",
                   CASE ind.bb = "above" -> "Overbought"
                     [] ind.bb = "below" -> "Oversold"
                     [] ind.bb = "within" -> "Normal")>>

\* _generate_technical_insights: the rules in their order; data['Volume']
\* of a frame without that column raises, and the except appends an Error
\* entry to what is there.
GenerateInsights(macdAbove) ==
    /\ i_pc = "insights"
    /\ LET first == TrendInsight(i_indicators, i_n)
                        \o MomentumInsight(i_indicators, i_n)
                        \o MacdInsight(i_indicators, macdAbove)
       IN  i_insights' =
               IF i_volume = "missing"
               THEN first \o <<Insight("Error", "Unable to analyze")>>
               ELSE first \o VolumeInsight(i_volume, i_n)
                          \o BollingerInsight(i_indicators)
    /\ i_pc' = "done"
    /\ UNCHANGED <<i_n, i_close, i_volume, i_indicators>>
    /\ UNCHANGED <<appVars, retryVars, callVars, articleVars, dbVars, endVars>>

\* No analysis is in progress.
TechIdle ==
    /\ i_pc = "off"
    /\ i_n = 0
    /\ i_close = "flat"
    /\ i_volume = "flat"
    /\ i_indicators = <<>>
    /\ i_insights = <<>>

\* An analysis of a history that is not empty.
TechCall ==
    /\ i_pc = "call"
    /\ i_n \in 1..MaxPoints
    /\ i_close \in CloseShapes
    /\ i_volume \in VolumeShapes \cup {"missing"}
    /\ i_indicators = <<>>
    /\ i_insights = <<>>

(***************************************************************************)
(* DatabaseManager: cleanup_old_runs and the foreign keys                  *)
(* (models/database.py).                                                   *)
(***************************************************************************)

\* The first day of the model, two days before the first of the month.
FirstDay == -1

\* The number of days of the previous month.
PrevMonthLen == 31

\* datetime.day of a day: days <= 0 are the last days of the previous month.
DayOfMonth(day) == IF day >= 1 THEN day ELSE PrevMonthLen + day

\* cutoff_date.replace(day=cutoff_date.day - days_old), midnight: the day
\* in the same month, or ValueError (the empty sequence) when the day
\* number is below 1.
CutoffDate(today, days_old) ==
    IF DayOfMonth(today) - days_old >= 1 THEN <<today - days_old>> ELSE <<>>

\* The ids of the runs whose started_at is before the cutoff.
OldRunIds(rs, cutoff) == {r.id : r \in {x \in rs : x.started_at < cutoff}}

\* The four DELETE statements of cleanup_old_runs on one connection; with
\* foreign keys enforced the DELETE on runs cascades to the sources and
\* memos of the deleted runs.
cleanup_old_runs(fk, rs, srcs, ms, today, days_old) ==
    LET cut == CutoffDate(today, days_old)
    IN  IF cut = <<>> THEN [runs |-> rs, sources |-> srcs, memos |-> ms]
        ELSE LET old == OldRunIds(rs, cut[1])
                 FreshMemo(m) == m.created_at >= cut[1]
                 LiveMemo(m) == m.created_at >= cut[1] /\ m.run_id \notin old
                 LiveSource(s) == s.run_id \notin old
             IN  [runs |-> {r \in rs : r.id \notin old},
                  sources |-> SelectSeq(srcs, LiveSource),
                  memos |-> IF fk THEN SelectSeq(ms, LiveMemo)
                            ELSE SelectSeq(ms, FreshMemo)]

\* create_run: INSERT INTO runs with started_at = datetime.now().
DbCreateRun ==
    /\ k_seq < MaxRows
    /\ k_seq' = k_seq + 1
    /\ k_runs' = k_runs \cup {[id |-> k_seq + 1, started_at |-> k_today]}
    /\ k_op' = [name |-> "create_run", days_old |-> 0]
    /\ UNCHANGED <<k_fk, k_today, k_sources, k_memos>>
    /\ UNCHANGED <<appVars, retryVars, callVars, articleVars, dbVars, taVars, watchVars>>

\* add_source for a run that exists, as the save loop calls it.
DbAddSource(run_id) ==
    /\ Len(k_sources) < MaxRows
    /\ \E r \in k_runs : r.id = run_id
    /\ k_sources' = Append(k_sources, [run_id |-> run_id])
    /\ k_op' = [name |-> "add_source", days_old |-> 0]
    /\ UNCHANGED <<k_fk, k_today, k_seq, k_runs, k_memos>>
    /\ UNCHANGED <<appVars, retryVars, callVars, articleVars, dbVars, taVars, watchVars>>

\* save_memo for a run that exists, with created_at = datetime.now().
DbSaveMemo(run_id) ==
    /\ Len(k_memos) < MaxRows
    /\ \E r \in k_runs : r.id = run_id
    /\ k_memos' = Append(k_memos, [run_id |-> run_id, created_at |-> k_today])
    /\ k_op' = [name |-> "save_memo", days_old |-> 0]
    /\ UNCHANGED <<k_fk, k_today, k_seq, k_runs, k_sources>>
    /\ UNCHANGED <<appVars, retryVars, callVars, articleVars, dbVars, taVars, watchVars>>

\* cleanup_old_runs(days_old): a ValueError of the date arithmetic is caught
\* by the except of the method, which logs it and returns.
DbCleanup(days_old) ==
    /\ LET out == cleanup_old_runs(k_fk, k_runs, k_sources, k_memos, k_today, days_old)
       IN  /\ k_runs' = out.runs
           /\ k_sources' = out.sources
           /\ k_memos' = out.memos
    /\ k_op' = [name |-> "cleanup_old_runs", days_old |-> days_old]
    /\ UNCHANGED <<k_fk, k_today, k_seq>>
    /\ UNCHANGED <<appVars, retryVars, callVars, articleVars, dbVars, taVars, watchVars>>

\* Midnight passes.
DbMidnight ==
    /\ k_today < MaxDay
    /\ k_today' = k_today + 1
    /\ k_op' = [name |-> "none", days_old |-> 0]
    /\ UNCHANGED <<k_fk, k_seq, k_runs, k_sources, k_memos>>
    /\ UNCHANGED <<appVars, retryVars, callVars, articleVars, dbVars, taVars, watchVars>>

\* The tables are empty and no call was made.
CleanIdle ==
    /\ k_fk = FALSE
    /\ k_today = 0
    /\ k_seq = 0
    /\ k_runs = {}
    /\ k_sources = <<>>
    /\ k_memos = <<>>
    /\ k_op = [name |-> "none", days_old |-> 0]

\* A fresh database on FirstDay; sqlite enforces foreign keys on a new
\* connection or not, as it was built.
CleanCall ==
    /\ k_fk \in BOOLEAN
    /\ k_today = FirstDay
    /\ k_seq = 0
    /\ k_runs = {}
    /\ k_sources = <<>>
    /\ k_memos = <<>>
    /\ k_op = [name |-> "none", days_old |-> 0]

(***************************************************************************)
(* WatchlistManager (core/watchlist.py).                                   *)
(***************************************************************************)

\* The tickers given to the calls, and the watchlist ids.
WatchTickers == {<<"a">>, <<"A">>, <<"1">>}
WatchlistIds == {1, 2}

\* Variant: the ticker is stored as given.
StoredTicker_asgiven(ticker) == ticker

\* ticker.upper(), the value bound to the INSERT and the DELETE.
StoredTicker(ticker) == Upper(ticker)

\* UNIQUE(watchlist_id, ticker): the INSERT raises IntegrityError.
UniqueViolation(items, row) == \E k \in DOMAIN items : items[k] = row

\* UPDATE watchlists SET updated_at = CURRENT_TIMESTAMP WHERE id = ?
TouchWatchlist(updated, watchlist_id, now) ==
    [id \in DOMAIN updated |-> IF id = watchlist_id THEN now ELSE updated[id]]

\* create_watchlist with a new name.
WatchCreate ==
    /\ Len(w_updated) < Cardinality(WatchlistIds)
    /\ w_updated' = Append(w_updated, w_now)
    /\ w_ret' = [op |-> "create", watchlist_id |-> Len(w_updated) + 1,
                 ticker |-> <<>>, result |-> TRUE]
    /\ UNCHANGED <<w_now, w_items>>
    /\ UNCHANGED <<appVars, retryVars, callVars, articleVars, dbVars, taVars, cleanVars>>

\* add_to_watchlist: the INSERT, then the UPDATE of the watchlist and True;
\* IntegrityError, or any other exception (failed), rolls the connection
\* back and gives False.
WatchAdd(watchlist_id, ticker, failed) ==
    /\ LET row == [watchlist_id |-> watchlist_id, ticker |-> StoredTicker(ticker)]
       IN  IF failed \/ UniqueViolation(w_items, row)
           THEN /\ UNCHANGED <<w_items, w_updated>>
                /\ w_ret' = [op |-> "add", watchlist_id |-> watchlist_id,
                             ticker |-> ticker, result |-> FALSE]
           ELSE /\ w_items' = Append(w_items, row)
                /\ w_updated' = TouchWatchlist(w_updated, watchlist_id, w_now)
                /\ w_ret' = [op |-> "add", watchlist_id |-> watchlist_id,
                             ticker |-> ticker, result |-> TRUE]
    /\ UNCHANGED w_now
    /\ UNCHANGED <<appVars, retryVars, callVars, articleVars, dbVars, taVars, cleanVars>>

\* remove_from_watchlist: the DELETE; with rowcount > 0 the UPDATE of the
\* watchlist and True, otherwise False; an exception (failed) rolls the
\* connection back and gives False.
WatchRemove(watchlist_id, ticker, failed) ==
    /\ LET row == [watchlist_id |-> watchlist_id, ticker |-> StoredTicker(ticker)]
           Other(r) == r # row
           left == SelectSeq(w_items, Other)
           rowcount == Len(w_items) - Len(left)
       IN  IF failed \/ rowcount = 0
           THEN /\ UNCHANGED <<w_items, w_updated>>
                /\ w_ret' = [op |-> "remove", watchlist_id |-> watchlist_id,
                             ticker |-> ticker, result |-> FALSE]
           ELSE /\ w_items' = left
                /\ w_updated' = TouchWatchlist(w_updated, watchlist_id, w_now)
                /\ w_ret' = [op |-> "remove", watchlist_id |-> watchlist_id,
                             ticker |-> ticker, result |-> TRUE]
    /\ UNCHANGED w_now
    /\ UNCHANGED <<appVars, retryVars, callVars, articleVars, dbVars, taVars, cleanVars>>

\* A second passes.
WatchTick ==
    /\ w_now < MaxNow
    /\ w_now' = w_now + 1
    /\ w_ret' = [op |-> "none", watchlist_id |-> 0, ticker |-> <<>>, result |-> FALSE]
    /\ UNCHANGED <<w_updated, w_items>>
    /\ UNCHANGED <<appVars, retryVars, callVars, articleVars, dbVars, taVars, cleanVars>>

\* The tables are empty and no call was made.
WatchIdle ==
    /\ w_now = 0
    /\ w_updated = <<>>
    /\ w_items = <<>>
    /\ w_ret = [op |-> "none", watchlist_id |-> 0, ticker |-> <<>>, result |-> FALSE]

\* No call of a later part is in progress.
LaterIdle == ArticleIdle /\ StoreIdle /\ TechIdle /\ CleanIdle /\ WatchIdle

IngestIdle ==
    /\ MarketIdle /\ LimiterIdle /\ QueryIdle /\ RelevanceIdle /\ SecIdle /\ NewsIdle
    /\ LaterIdle

(***************************************************************************)
(* Specifications.                                                         *)
(***************************************************************************)
Init == AppInit /\ RetryIdle /\ IngestIdle

Next ==
    \/ \E q \in Queries : StartAnalysisCreate(q)
    \/ StartAnalysisUpdate
    \/ BeginWorkflow
    \/ LegStart
    \/ \E n \in 0..MaxPerLeg : LegReturn(n)
    \/ LegRaise
    \/ LegHang
    \/ FinishWorkflow
    \/ \E t \in Queries : QuickCreate(t)
    \/ QuickFinish

Spec == Init /\ [][Next]_vars

\* The script of a session runs to its end whenever it can take a step; a
\* hung ingest call has no step to take.
FairSpec == Spec /\ WF_vars(Next)

RetryInit == AppInit /\ RetryCall /\ IngestIdle

RetryNext == RetryAttempt \/ RetrySleep \/ RetryExhausted

RetrySpec == RetryInit /\ [][RetryNext]_vars

\* Everything but the named part is idle.
OthersIdle(parts) ==
    /\ "market" \in parts \/ MarketIdle
    /\ "limiter" \in parts \/ LimiterIdle
    /\ "query" \in parts \/ QueryIdle
    /\ "relevance" \in parts \/ RelevanceIdle
    /\ "sec" \in parts \/ SecIdle
    /\ "news" \in parts \/ NewsIdle
    /\ "article" \in parts \/ ArticleIdle
    /\ "store" \in parts \/ StoreIdle
    /\ "tech" \in parts \/ TechIdle
    /\ "clean" \in parts \/ CleanIdle
    /\ "watch" \in parts \/ WatchIdle

MarketInit == AppInit /\ RetryIdle /\ MarketCall /\ OthersIdle({"market"})

MarketNext ==
    \/ MarketBegin
    \/ \E o \in Outcomes("info"), e \in 0..MaxElapse : MarketSubFetch(o, e)
    \/ MarketReturn

MarketSpec == MarketInit /\ [][MarketNext]_vars

LimiterInit == AppInit /\ RetryIdle /\ LimiterCall /\ OthersIdle({"limiter"})

LimiterNext ==
    \/ \E p \in Coroutines : TickerInfoCheck(p)
    \/ \E p \in Coroutines : TickerInfoWake(p)
    \/ \E p \in Coroutines, ok \in BOOLEAN : TickerInfoFetch(p, ok)
    \/ TickerInfoTick

LimiterSpec == LimiterInit /\ [][LimiterNext]_vars

QueryInit == AppInit /\ RetryIdle /\ QueryCall /\ OthersIdle({"query"})

QueryNext == CanHandleAsk

QuerySpec == QueryInit /\ [][QueryNext]_vars

RelevanceInit == AppInit /\ RetryIdle /\ RelevanceCall /\ OthersIdle({"relevance"})

RelevanceNext == RelevanceAsk

RelevanceSpec == RelevanceInit /\ [][RelevanceNext]_vars

SecInit == AppInit /\ RetryIdle /\ SecCall /\ OthersIdle({"sec"})

SecNext ==
    \/ SecBegin
    \/ \E failed \in BOOLEAN, files \in FileLists : SecFilingType(failed, files)
    \/ SecReturn

SecSpec == SecInit /\ [][SecNext]_vars

NewsInit == AppInit /\ RetryIdle /\ NewsCall /\ OthersIdle({"news"})

NewsNext ==
    \/ NewsBegin
    \/ \E failed \in FeedFailures, entries \in EntryLists : NewsFeed(failed, entries)
    \/ NewsReturn

NewsSpec == NewsInit /\ [][NewsNext]_vars

\* One call of ingest of any of the three ingestors.
IngestInit == MarketInit \/ SecInit \/ NewsInit

IngestNext == MarketNext \/ SecNext \/ NewsNext

IngestSpec == IngestInit /\ [][IngestNext]_vars

ArticleInit == AppInit /\ RetryIdle /\ ArticleCall /\ OthersIdle({"article"})

ArticleNext ==
    \/ ArticleBegin
    \/ \E o \in RobotsOutcomes : ArticleRobots(o)
    \/ \E o \in PageOutcomes : ArticlePage(o)
    \/ ArticleSource

ArticleSpec == ArticleInit /\ [][ArticleNext]_vars

TechInit == AppInit /\ RetryIdle /\ TechCall /\ OthersIdle({"tech"})

TechNext ==
    \/ CalculateIndicators
    \/ \E macdAbove \in BOOLEAN : GenerateInsights(macdAbove)

TechSpec == TechInit /\ [][TechNext]_vars

StoreNext ==
    \/ \E run_id \in StoreRunIds, src \in StoreSources, raised \in BOOLEAN :
           StoreAdd(run_id, src, raised)
    \/ \E run_id \in StoreRunIds : StoreGet(run_id)

StoreSpec == Init /\ [][StoreNext]_vars

CleanInit == AppInit /\ RetryIdle /\ CleanCall /\ OthersIdle({"clean"})

CleanNext ==
    \/ DbCreateRun
    \/ \E run_id \in 1..MaxRows : DbAddSource(run_id)
    \/ \E run_id \in 1..MaxRows : DbSaveMemo(run_id)
    \/ \E days_old \in 0..MaxDaysOld : DbCleanup(days_old)
    \/ DbMidnight

CleanSpec == CleanInit /\ [][CleanNext]_vars

WatchNext ==
    \/ WatchCreate
    \/ \E id \in WatchlistIds, t \in WatchTickers, failed \in BOOLEAN :
           WatchAdd(id, t, failed)
    \/ \E id \in WatchlistIds, t \in WatchTickers, failed \in BOOLEAN :
           WatchRemove(id, t, failed)
    \/ WatchTick

WatchSpec == Init /\ [][WatchNext]_vars

(***************************************************************************)
(* Properties.                                                             *)
(***************************************************************************)
TerminalStatus == {COMPLETED, FAILED, CANCELLED}

\* The step in which run_sync_analysis, past its three legs, runs to its end.
WorkflowEnds == pc = "save" /\ pc' = "idle"

\* In that step some add_source call raised: fewer rows were added than
\* sources were collected.
AddSourceRaised == Len(dbSources') - Len(dbSources) < Len(sources)

\* C1: in every reachable state, finished-at of a Run is set if and only if
\* its status is completed, failed or cancelled.
C1_FinishedAtIffTerminal ==
    \A r \in DOMAIN runs :
        (runs[r].finished_at # NoTime) <=> (runs[r].status \in TerminalStatus)

\* C2: a Run is created in pending, and every later change of its status
\* goes along pending->running, running->completed or running->failed.
AllowedTransitions ==
    {<<PENDING, RUNNING>>, <<RUNNING, COMPLETED>>, <<RUNNING, FAILED>>}

C3_IngestorErrorIsolated ==
    /\ [][(pc \in LegSet /\ call = "inflight" /\ legFailed' # legFailed)
            => /\ sources' = sources
               /\ runs' = runs
               /\ call' = "none"
               /\ pc' = NextPc(pc)]_vars
    /\ [](pc = "save"
            => /\ invoked = LegSet
               /\ \A i \in DOMAIN sources :
                      \A l \in legFailed : sources[i].type # SourceTypeOf(l))

\* One leg raised, the persistence loop was reached and the other legs'
\* sources are in the collected list.
C3_Witness ==
    /\ pc = "save"
    /\ legFailed = {"market"}
    /\ invoked = LegSet
    /\ Len(sources) = 2
    /\ runs[wfRun].status = RUNNING

\* C4: a workflow in which add_source raised ends with the Run failed and
\* the add_source failure as its error message.
C4_AddSourceFailureFailsRun ==
    [][(WorkflowEnds /\ AddSourceRaised /\ runs' # runs)
         => /\ runs'[wfRun].status = FAILED
            /\ runs'[wfRun].error_message = AddSourceError]_vars

\* C5: a workflow in which all three ingestors returned zero sources, and
\* whose final status update was written, ends with the Run completed, no
\* source persisted for it and a memo that reports 0 sources.
C5_EmptyIngestionCompletes ==
    [][(WorkflowEnds /\ sources = <<>> /\ legFailed = {} /\ runs' # runs)
         => /\ runs'[wfRun].status = COMPLETED
            /\ \A i \in DOMAIN dbSources' : dbSources'[i].run_id # wfRun
            /\ \E i \in DOMAIN memos' :
                   memos'[i].run_id = wfRun /\ memos'[i].n_sources = 0]_vars

\* C6: a workflow ends with the Run failed only if a persistence call
\* (add_source, save_memo or update_run_status) raised in it.
C6_OnlyPersistenceFails ==
    [][(WorkflowEnds /\ runs'[wfRun].status = FAILED)
         => (runs'[wfRun].error_message \in PersistenceErrors
             \/ AddSourceRaised)]_vars

\* C7: a market leg that is in flight does not hold back the other two
\* legs: both are started whether or not it ever returns.
C7_LegsConcurrent ==
    (pc = "market" /\ call \in {"inflight", "hung"})
        ~> ({"news", "sec"} \subseteq invoked)

\* C8: a running Run one of whose ingest calls never returns still
\* eventually is completed or failed.
C8_RunningTerminates ==
    \A r \in 1..MaxRuns :
        (wfRun = r /\ runs[r].status = RUNNING /\ pc \in LegSet /\ call = "hung")
            ~> (r \in DOMAIN runs /\ runs[r].status \in {COMPLETED, FAILED})

\* The invocation at which the operation first succeeds (0: never).
FirstSuccess(outs) ==
    IF \E i \in DOMAIN outs : outs[i]
    THEN CHOOSE i \in DOMAIN outs : outs[i] /\ \A j \in 1..(i - 1) : ~outs[j]
    ELSE 0

NonDecreasing(s) == \A i \in 1..(Len(s) - 1) : s[i] <= s[i + 1]

\* C9: with max_retries >= 1 and an operation that fails exactly k < m times
\* and then succeeds, the operation is invoked exactly k+1 times, the call
\* returns the value of that invocation, exactly k sleeps happened (none
\* after the success) and the slept delays are non-decreasing.
C9_RetrySuccess ==
    LET f == FirstSuccess(r_outcomes)
    IN  (r_pc # "off" /\ r_m >= 1 /\ f # 0)
            => /\ r_calls <= f
               /\ Len(r_sleeps) <= f - 1
               /\ NonDecreasing(r_sleeps)
               /\ r_pc = "done"
                    => /\ r_calls = f
                       /\ Len(r_sleeps) = f - 1
                       /\ r_result = [kind |-> "return", val |-> OpValue(f)]

\* Two failures, then a success at the third and last attempt, with two
\* different delays slept.
C9_Witness ==
    /\ r_pc = "done"
    /\ r_m = 3
    /\ r_calls = 3
    /\ r_result.kind = "return"
    /\ Len(r_sleeps) = 2
    /\ r_sleeps[1] < r_sleeps[2]

\* An exception carrying the attempt count.
Tagged(e, n) == [type |-> e.type, call |-> e.call, attempts |-> n]

\* C10 as stated: when every attempt fails, the operation is invoked m
\* times, m-1 sleeps occur and the call raises the last attempt's failure
\* tagged with the attempt count.
C10_ExhaustedTagged ==
    (r_pc = "done" /\ r_m >= 1 /\ FirstSuccess(r_outcomes) = 0)
        => /\ r_calls = r_m
           /\ Len(r_sleeps) = r_m - 1
           /\ r_result = [kind |-> "raise", val |-> Tagged(OpError(r_m), r_m)]

\* C10 as amended: when every attempt fails, the operation is invoked
\* exactly m times, exactly m-1 sleeps occur (none after the final attempt)
\* and the call raises the failure of the last attempt unchanged; the
\* attempt count is only written to the error log.
C10_ExhaustedRaisesLast ==
    (r_pc # "off" /\ r_m >= 1 /\ FirstSuccess(r_outcomes) = 0)
        => /\ r_calls <= r_m
           /\ Len(r_sleeps) <= r_m - 1
           /\ r_pc = "done"
                => /\ r_calls = r_m
                   /\ Len(r_sleeps) = r_m - 1
                   /\ r_result = [kind |-> "raise", val |-> OpError(r_m)]
                   /\ r_log[Len(r_log)] = <<"error", r_m>>

\* Three attempts failed and the call has raised.
C10_Witness ==
    /\ r_pc = "done"
    /\ r_m = 3
    /\ r_calls = 3
    /\ r_result.kind = "raise"
    /\ Len(r_sleeps) = 2

\* C11: the delay slept after the n-th failed attempt (n counted from 1,
\* n < max_retries) is base_delay * 2^(n-1): a sleep happens only after a
\* failure that is not the last attempt, and the n-th sleep follows the n-th
\* invocation.
C11_BackoffDelays ==
    r_pc # "off"
        => /\ \A n \in DOMAIN r_sleeps :
                  /\ n < r_m
                  /\ ~r_outcomes[n]
                  /\ r_sleeps[n] = r_delay * (2 ^ (n - 1))
           /\ Len(r_sleeps) \in {r_calls - 1, r_calls}
           /\ r_pc = "sleep" => Len(r_sleeps) = r_calls - 1

\* Two failed attempts with base delay 2: the delays 2 and 4 were slept.
C11_Witness ==
    /\ r_delay = 2
    /\ r_calls = 3
    /\ r_sleeps = <<2, 4>>

\* C12: a sub-fetch whose yfinance call failed is attempted again as long as
\* max_retries allows: at the end of ingest a sub-fetch that failed
\* transiently was invoked at least twice (max_retries >= 2), and one whose
\* collaborator is down max_retries times.
C12_FetchesRetried ==
    m_pc = "done"
        => \A k \in SubFetchSet :
               /\ (m_outcome[k] = "transient" /\ ConfigMaxRetries >= 2)
                      => m_attempts[k] >= 2
               /\ m_outcome[k] = "down" => m_attempts[k] = ConfigMaxRetries

\* C13: any two consecutive requests one MarketIngestor instance sends to
\* yfinance are at least min_request_interval apart.
C13_RequestsSpaced ==
    \A i \in 1..(Len(m_requests) - 1) :
        m_requests[i + 1].at - m_requests[i].at >= MinRequestInterval

\* C14: two coroutines of one instance never pass the interval check on the
\* same last_request_time, and their requests are at least
\* min_request_interval apart.
C14_LimiterSafe ==
    \A i, j \in DOMAIN t_requests :
        i < j => /\ t_requests[i].seen # t_requests[j].seen
                 /\ t_requests[j].at - t_requests[i].at >= MinRequestInterval

\* One to five upper-case letters and nothing else.
OneToFiveLetters(s) ==
    /\ Len(s) \in 1..TickerMaxLen
    /\ \A i \in DOMAIN s : s[i] \in UpperLetters

EntryText(entry) == entry.title \cup entry.summary \cup entry.tags

\* C20: an entry is accepted only if its title, summary or tags match the
\* query term, a company-name alias of the query or a business-vocabulary
\* keyword; an entry that matches none of them is rejected, whatever the
\* query.
C20_RelevantOnlyIfMatching ==
    (a_pc = "done" /\ a_relevant)
        => EntryText(a_entry) \cap (SearchTerms(a_query) \cup BusinessKeywords) # {}

\* The documents delivered in one call that could be read as text, in the
\* order of delivery.
RECURSIVE ReadableDocuments(_)
ReadableDocuments(delivered) ==
    IF delivered = <<>> THEN <<>>
    ELSE SelectSeq(Head(delivered).files, LAMBDA f : f.readable)
             \o ReadableDocuments(Tail(delivered))

\* C18: for a valid ticker SECIngestor.ingest returns one Source for every
\* delivered filing document that could be read as text, carrying the
\* document text, its checksum and the run id passed to ingest.
C18_OneSourcePerFiling ==
    (s_pc = "done" /\ SecCanHandle(s_query) /\ s_downloader)
        => LET docs == ReadableDocuments(s_delivered)
               out == s_result.val
           IN  /\ Len(out) = Len(docs)
               /\ \A i \in DOMAIN out :
                      /\ out[i].raw_content = docs[i].text
                      /\ out[i].checksum = Md5(docs[i].text)
                      /\ out[i].run_id = s_run_id

\* What the filing types of a call yielded, one after the other.
RECURSIVE YieldOf(_)
YieldOf(delivered) ==
    IF delivered = <<>> THEN <<>>
    ELSE ProcessFiles(Head(delivered).files) \o YieldOf(Tail(delivered))

\* C19: a filing type whose download fails adds no source and the loop goes
\* on with the next type; at the end of a call for a valid ticker every
\* configured filing type was attempted, in order, and the sources returned
\* are those of all types.
C19_FilingTypeIsolated ==
    /\ [][(s_pc = "types" /\ Len(s_delivered') > Len(s_delivered)
              /\ s_delivered'[Len(s_delivered')].failed)
            => /\ s_sources' = s_sources
               /\ s_type' = s_type + 1
               /\ s_pc' = "types"]_vars
    /\ []((s_pc = "done" /\ SecCanHandle(s_query) /\ s_downloader)
            => /\ s_attempted = FilingTypes
               /\ s_result.val = YieldOf(s_delivered))

\* The download of the first filing type failed, the second type was still
\* attempted, delivered two files, and ingest has returned.
C19_Witness ==
    /\ s_pc = "done"
    /\ s_attempted = FilingTypes
    /\ s_delivered[1].failed
    /\ ~s_delivered[2].failed
    /\ Len(s_delivered[2].files) = 2
    /\ s_result.kind = "return"

\* C16: an ingestor whose can_handle is false for the query performs no
\* fetch in ingest and returns an empty list: the market ingestor sends no
\* request to yfinance, the news ingestor parses no feed, the filing
\* ingestor starts no download.
C16_UnhandledQueryNoFetch ==
    /\ (m_pc = "done" /\ ~MarketCanHandle(m_query))
           => (m_requests = <<>> /\ m_result.val = <<>>)
    /\ (n_pc = "done" /\ ~NewsCanHandle(QueryShape(n_query)))
           => (n_fetches = 0 /\ n_result.val = <<>>)
    /\ (s_pc = "done" /\ ~SecCanHandle(s_query))
           => (s_downloads = 0 /\ s_result.val = <<>>)

\* C17: MarketIngestor.ingest for a valid ticker runs all four sub-fetches
\* and returns one Source for exactly those that produced data, in order,
\* never two for one sub-fetch; a sub-fetch that fails adds nothing and is
\* followed by the next one.
C17_SubFetchesIsolated ==
    /\ [][(m_pc \in SubFetchSet /\ m_outcome'[m_pc] \notin {"none", "data"})
            => /\ m_sources' = m_sources
               /\ m_pc' = NextSubFetch(m_pc)]_vars
    /\ []((m_pc = "done" /\ MarketCanHandle(m_query) /\ m_yf)
            => /\ \A k \in SubFetchSet : m_outcome[k] # "none" /\ m_attempts[k] = 1
               /\ m_result.val = SelectSeq(SubFetches, LAMBDA k : m_outcome[k] = "data")
               /\ Len(m_result.val) <= Len(SubFetches))

\* The profile was fetched, the history request failed, the ratios were
\* fetched, there were no earnings: ingest returned the profile and the
\* ratios Source.
C17_Witness ==
    /\ m_pc = "done"
    /\ m_outcome["info"] = "data"
    /\ m_outcome["history"] = "down"
    /\ m_outcome["ratios"] = "data"
    /\ m_outcome["earnings"] = "empty"
    /\ m_result.val = <<"info", "ratios">>

\* The sources of the entries the feeds delivered that ingest accepts (the
\* relevant ones _process_article made a Source of), whatever cap applies.
RECURSIVE AcceptedOf(_, _, _)
AcceptedOf(delivered, query, run_id) ==
    IF delivered = <<>> THEN <<>>
    ELSE ProcessEntries(Head(delivered).entries, query, run_id)
             \o AcceptedOf(Tail(delivered), query, run_id)

\* C21: NewsIngestor.ingest never returns more than max_articles sources,
\* and returns one Source for each accepted entry up to that cap, for every
\* number of feeds and every max_articles >= 1.
C21_CappedTotal ==
    (n_pc = "done" /\ n_session)
        => LET accepted == AcceptedOf(n_delivered, n_query, n_run_id)
           IN  /\ Len(n_result.val) <= n_max_articles
               /\ Len(n_result.val) = IF Len(accepted) < n_max_articles
                                      THEN Len(accepted) ELSE n_max_articles

\* What the feeds processed contribute, feed by feed: nothing for a feed
\* that failed, the sources of its entries (cut to the share of a feed)
\* otherwise.
RECURSIVE FeedYield(_, _, _, _)
FeedYield(delivered, query, run_id, share) ==
    IF delivered = <<>> THEN <<>>
    ELSE (IF Head(delivered).failed # "no" THEN <<>>
          ELSE ProcessEntries(Truncated(Head(delivered).entries, share), query, run_id))
             \o FeedYield(Tail(delivered), query, run_id, share)

\* C22: a feed that cannot be reached or parsed contributes zero sources and
\* every other configured feed is still processed, in configuration order,
\* with its sources included in the result.
C22_FeedIsolated ==
    /\ [][(n_pc = "feeds" /\ Len(n_delivered') > Len(n_delivered))
            => /\ n_feed' = n_feed + 1
               /\ n_pc' = "feeds"
               /\ n_delivered'[Len(n_delivered')].failed # "no"
                      => n_sources' = n_sources]_vars
    /\ []((n_pc = "done" /\ n_session)
            => /\ Len(n_delivered) = MaxFeeds
               /\ n_fetches = MaxFeeds
               /\ n_result.val = FeedYield(n_delivered, n_query, n_run_id,
                                           n_max_articles \div MaxFeeds))

\* The first feed raised into the loop of ingest, the second was still
\* processed and its article is in the result.
C22_Witness ==
    /\ n_pc = "done"
    /\ Len(n_delivered) = MaxFeeds
    /\ n_delivered[1].failed = "loop"
    /\ n_delivered[MaxFeeds].failed = "no"
    /\ Len(n_result.val) >= 1

\* C23: the article page is fetched only after the robots-exclusion check
\* for its URL has completed and allowed it; when the check disallows, or
\* the page fetch fails, returns a status other than 200 or yields no text,
\* no exception escapes and the content of the emitted Source is the
\* summary of the feed entry (nothing for an entry without one).
C23_RobotsThenSummary ==
    /\ [][(Len(p_requests') > Len(p_requests)
              /\ p_requests'[Len(p_requests')] = "page")
            => /\ p_requests = <<"robots">>
               /\ p_robots \in RobotsOutcomes
               /\ RobotsAllows(p_robots)]_vars
    /\ []((p_pc = "done" /\ (p_robots = "disallow"
                             \/ p_page \in PageOutcomes \ {"text"}))
            => /\ p_result.kind = "return"
               /\ \A i \in 1..Len(p_result.val) :
                      p_result.val[i].raw_content
                          = IF p_entry.summary = <<>> THEN ""
                            ELSE p_entry.summary[1])

\* The robots check disallowed the page of an entry with a summary: the
\* page was not requested and the Source carries the summary.
C23_Witness ==
    /\ p_pc = "done"
    /\ p_robots = "disallow"
    /\ p_requests = <<"robots">>
    /\ p_entry.summary = <<"summary">>
    /\ Len(p_result.val) = 1
    /\ p_result.val[1].raw_content = "summary"

\* The raw content of a Source is its digest's input: a Source with content
\* has the checksum of exactly that content, and one without a checksum has
\* no content.
ChecksumOfContent(src) ==
    /\ src.raw_content # "" => src.checksum = Md5(src.raw_content)
    /\ src.checksum = None => src.raw_content = ""

\* C24: every Source emitted by any ingestor (filing, news or market) that
\* has non-empty raw content carries a checksum equal to the digest of
\* exactly that content; a Source has a null checksum only if it has no
\* textual content.
C24_ChecksumOfContent ==
    /\ \A i \in 1..Len(p_result.val) : ChecksumOfContent(p_result.val[i])
    /\ \A i \in 1..Len(MarketEmitted) : ChecksumOfContent(MarketEmitted[i])
    /\ \A i \in 1..Len(s_result.val) : ChecksumOfContent(s_result.val[i])

\* C25: storage is deduplicated by checksum: content whose checksum is
\* already stored is not stored again, so no two persisted sources carry the
\* same non-null checksum.
C25_DedupByChecksum ==
    \A i, j \in 1..Len(d_rows) :
        (i # j /\ d_rows[i].checksum # None)
            => d_rows[i].checksum # d_rows[j].checksum

\* The fields of a Source the round trip is about.
RoundTripFields(src) ==
    [type |-> src.type, url |-> src.url, title |-> src.title,
     published_at |-> src.published_at, checksum |-> src.checksum,
     metadata |-> src.metadata]

RECURSIVE FilesDelivered(_)
FilesDelivered(delivered) ==
    IF delivered = <<>> THEN 0
    ELSE Len(Head(delivered).files) + FilesDelivered(Tail(delivered))

\* C27: ingest(query, run_id) of each of the three ingestors never raises
\* to its caller whatever errors its collaborators produce: every such error
\* is converted into fewer or zero returned sources.
C27_IngestNeverRaises ==
    /\ m_result.kind # "raise" /\ s_result.kind # "raise" /\ n_result.kind # "raise"
    /\ m_pc = "done"
           => /\ m_result.kind = "return"
              /\ Len(m_result.val) <= Cardinality({k \in SubFetchSet : m_outcome[k] = "data"})
    /\ s_pc = "done"
           => /\ s_result.kind = "return"
              /\ Len(s_result.val) <= FilesDelivered(s_delivered)
    /\ n_pc = "done"
           => /\ n_result.kind = "return"
              /\ Len(n_result.val)
                     <= Len(AcceptedOf(n_delivered, n_query, n_run_id))

\* Building the company information raised inside MarketIngestor.ingest, the
\* history was still fetched, and ingest returned a list.
C27_Witness ==
    /\ m_pc = "done"
    /\ m_outcome["info"] = "raises"
    /\ m_outcome["history"] = "data"
    /\ m_result.kind = "return"
    /\ m_result.val # <<>>

\* C28: every Run in failed state has a non-null error message, and every
\* Run in completed state has a null error message, after any sequence of
\* application operations; the update to completed made on any Run of the
\* table, a failed one included, leaves it without a message.
C28_ErrorMessageIffFailed ==
    \A id \in DOMAIN runs :
        /\ runs[id].status = FAILED => runs[id].error_message # NoError
        /\ runs[id].status = COMPLETED => runs[id].error_message = NoError
        /\ LET done == update_run_status(runs, id, COMPLETED, NoError, clock)
           IN  done[id].status = COMPLETED /\ done[id].error_message = NoError

\* Two workflows have ended and both Runs have failed with a message.
C28_Witness ==
    /\ Len(runs) = 2
    /\ pc = "idle"
    /\ \A i \in DOMAIN runs :
           runs[i].status = FAILED /\ runs[i].error_message # NoError

\* The types of the rules in their order.
RuleOrder == <<"Trend", "Momentum", "MACD", "Volume", "Bollinger Bands">>

\* The place of a type in RuleOrder, 0 for any other type.
RulePlace(type) ==
    IF \E r \in 1..Len(RuleOrder) : RuleOrder[r] = type
    THEN CHOOSE r \in 1..Len(RuleOrder) : RuleOrder[r] = type
    ELSE 0

\* C29: for every non-empty OHLCV series the insight list is a subsequence
\* of (Trend, Momentum, MACD, Volume, Bollinger Bands) in that order with
\* each type at most once; Trend appears iff at least 50 points exist,
\* Bollinger Bands iff at least 20, and no entry of another type is
\* produced.
C29_InsightOrder ==
    (i_pc = "done" /\ i_volume # "missing")
        => LET types == [k \in 1..Len(i_insights) |-> i_insights[k].type]
           IN  /\ \A k \in 1..Len(types) : RulePlace(types[k]) # 0
               /\ \A j, k \in 1..Len(types) :
                      j < k => RulePlace(types[j]) < RulePlace(types[k])
               /\ (\E k \in 1..Len(types) : types[k] = "Trend")
                      <=> i_n >= Sma50Window
               /\ (\E k \in 1..Len(types) : types[k] = "Bollinger Bands")
                      <=> i_n >= Sma20Window

\* A history of 50 rows or more gave all five insights.
C29_Witness ==
    /\ i_pc = "done"
    /\ i_n >= Sma50Window
    /\ Len(i_insights) = Len(RuleOrder)
    /\ i_insights[1].type = "Trend"
    /\ i_insights[5].type = "Bollinger Bands"

\* C30: given a constant-price series, RSI is undefined for the first 14
\* points and exactly 50 for every later point, and SMA(20) equals the
\* constant price at every point from the 20th on.
C30_ConstantSeries ==
    (i_pc \in {"insights", "done"} /\ i_close = "flat")
        => \A k \in 1..i_n :
               /\ k <= RsiWindow => IsNa(i_indicators.rsi[k])
               /\ k > RsiWindow => /\ ~IsNa(i_indicators.rsi[k])
                                   /\ i_indicators.rsi[k][1]
                                          = 50 * i_indicators.rsi[k][2]
               /\ k >= Sma20Window
                      => /\ ~IsNa(i_indicators.sma_20[k])
                         /\ i_indicators.sma_20[k][1]
                                = Close("flat", k, i_n) * i_indicators.sma_20[k][2]

\* The signal of the emitted insight of a type, "" when there is none.
SignalOf(type) ==
    IF \E k \in 1..Len(i_insights) : i_insights[k].type = type
    THEN i_insights[CHOOSE k \in 1..Len(i_insights) : i_insights[k].type = type].signal
    ELSE ""

\* The sum of the last t volumes of the series and the sum of all of them.
VolumeSum(t) ==
    LET v == [k \in 1..i_n |-> Volume(i_volume, k, i_n)]
    IN  SumOf(v, i_n - t + 1, i_n)

\* C31: the signal of each emitted insight is decided on the latest data
\* point with strict comparisons: Trend is Bullish iff SMA20 > SMA50;
\* Momentum is Overbought iff RSI > 70, Oversold iff RSI < 30, otherwise
\* Neutral; Volume is High iff the mean of the last 5 volumes > 1.5 x the
\* mean of all, Low iff it is < 0.5 x, otherwise Normal.
C31_StrictSignals ==
    (i_pc = "done" /\ i_volume # "missing")
        => LET s20 == i_indicators.sma_20[i_n]
               s50 == i_indicators.sma_50[i_n]
               rsi == i_indicators.rsi[i_n]
               t == IF i_n < VolumeTail THEN i_n ELSE VolumeTail
               recent == VolumeSum(t)
               all == VolumeSum(i_n)
           IN  /\ SignalOf("Trend") # ""
                      => (SignalOf("Trend") = "Bullish"
                              <=> s20[1] * s50[2] > s50[1] * s20[2])
               /\ SignalOf("Trend") \in {"", "Bullish", "Bearish"}
               /\ SignalOf("Momentum") # ""
                      => /\ SignalOf("Momentum") = "Overbought"
                                <=> rsi[1] > RsiOverbought * rsi[2]
                         /\ SignalOf("Momentum") = "Oversold"
                                <=> rsi[1] < RsiOversold * rsi[2]
                         /\ SignalOf("Momentum") \in {"Overbought", "Oversold", "Neutral"}
               /\ SignalOf("Volume") = "High" <=> 2 * recent * i_n > 3 * all * t
               /\ SignalOf("Volume") = "Low" <=> 2 * recent * i_n < all * t
               /\ SignalOf("Volume") \in {"High", "Low", "Normal"}

\* A series whose two averages are equal, whose RSI is exactly 70 or whose
\* recent volume is exactly 1.5 x the average gave Bearish, Neutral or
\* Normal: here the RSI case.
C31_Witness ==
    /\ i_pc = "done"
    /\ i_volume # "missing"
    /\ ~IsNa(i_indicators.rsi[i_n])
    /\ i_indicators.rsi[i_n][1] = RsiOverbought * i_indicators.rsi[i_n][2]
    /\ SignalOf("Momentum") = "Neutral"

\* The terminal states of a Run.
Terminal == {COMPLETED, FAILED}

\* C32: terminal states are absorbing in the application workflow: once a
\* Run's status is completed or failed, no later application step changes
\* that Run's status, finished-at or error message; the Run a step in
\* progress is about to update is never a terminal one.
C32_TerminalAbsorbing ==
    [][/\ \A id \in DOMAIN runs :
              runs[id].status \in Terminal
                  => /\ id \in DOMAIN runs'
                     /\ runs'[id].status = runs[id].status
                     /\ runs'[id].finished_at = runs[id].finished_at
                     /\ runs'[id].error_message = runs[id].error_message
       /\ pc = "start" => runs[current_analysis].status \notin Terminal
       /\ pc \in LegSet \cup {"save"} => runs[wfRun].status \notin Terminal
       /\ pc = "quick" => runs[quickRun].status \notin Terminal]_vars

\* A Run has failed, another query was started after it and its workflow is
\* collecting data.
C32_Witness ==
    /\ Len(runs) = 2
    /\ runs[1].status = FAILED
    /\ runs[2].status = RUNNING
    /\ pc \in LegSet
    /\ wfRun = 2

\* What generate_simple_memo can give for n sources: a memo or an exception.
MemoResults(n) ==
    {[ok |-> TRUE, err |-> NoError, n_sources |-> n],
     [ok |-> FALSE, err |-> ValidationError, n_sources |-> n]}

\* A memo row of the Run is in the table ms.
HasMemo(ms, run_id) == \E k \in DOMAIN ms : ms[k].run_id = run_id

IsPrefix(s, t) == Len(s) <= Len(t) /\ SubSeq(t, 1, Len(s)) = s

\* C34: failure performs no rollback: when run_sync_analysis ends with the
\* Run failed (memo generation, save_memo or the final status update
\* raised), every source persisted by add_source for that Run, and a memo
\* already saved, remain persisted and unchanged, as do the rows that were
\* in the tables before.
C34_NoRollback ==
    pc = "save" =>
        \A failed \in SUBSET DOMAIN sources :
        \A memo \in MemoResults(Len(sources)) :
        \A saveOk \in Reached(memo.ok) :
        \A doneOk \in Reached(memo.ok /\ saveOk) :
        \A failOk \in Reached(WorkflowError(memo, saveOk, doneOk) # NoError) :
        \A out \in {run_sync_analysis_tail(runs, dbSources, memos, wfRun, sources,
                                           failed, memo, saveOk, doneOk, failOk,
                                           clock)} :
            LET kept == DOMAIN sources \ failed
                added == SubSeq(out.dbSources, Len(dbSources) + 1,
                                Len(out.dbSources))
            IN  out.runs[wfRun].status = FAILED
                    => /\ IsPrefix(dbSources, out.dbSources)
                       /\ Len(added) = Cardinality(kept)
                       /\ \A i \in kept :
                              added[Cardinality({j \in kept : j <= i})]
                                  = [run_id |-> wfRun, type |-> sources[i].type]
                       /\ IsPrefix(memos, out.memos)
                       /\ (memo.ok /\ saveOk)
                              => /\ Len(out.memos) = Len(memos) + 1
                                 /\ HasMemo(out.memos, wfRun)

\* The workflow of a Run ended with the Run failed, and a source row saved
\* for it by the loop is in the table.
C34_Witness ==
    /\ pc = "idle"
    /\ \E id \in DOMAIN runs :
           /\ runs[id].status = FAILED
           /\ \E k \in DOMAIN dbSources : dbSources[k].run_id = id

\* Every DataSource of a returned list carries the run id and the kind, and
\* the rows the save loop of the application writes for the list, whichever
\* add_source calls raise, are under that run id.
CarriesRunAndKind(list, run_id, kind) ==
    /\ \A i \in DOMAIN list : list[i].run_id = run_id /\ list[i].type = kind
    /\ \A failed \in SUBSET DOMAIN list :
           LET rows == SavedRows(run_id, list, failed)
           IN  \A k \in DOMAIN rows : rows[k].run_id = run_id /\ rows[k].type = kind

\* C35: every Source returned by ingest(query, run_id) of any ingestor
\* carries owning run id equal to the run_id argument and source kind equal
\* to that ingestor's kind (market_data, news_article or sec_filing), and
\* every source persisted for the Run is stored under that same run id.
C35_RunIdAndKind ==
    /\ m_result.kind = "return" => CarriesRunAndKind(MarketEmitted, m_run_id, "market_data")
    /\ s_result.kind = "return" => CarriesRunAndKind(s_result.val, s_run_id, "sec_filing")
    /\ n_result.kind = "return" => CarriesRunAndKind(n_result.val, n_run_id, "news_article")

\* MarketIngestor.ingest was called for the second Run and returned sources.
C35_Witness ==
    /\ m_pc = "done"
    /\ m_run_id = 2
    /\ m_result.kind = "return"
    /\ Len(m_result.val) >= 2

\* C36: process_with_retry invokes the operation at least once and at most
\* max_retries times for every max_retries >= 1; with max_retries = 0 the
\* operation is never invoked and the call still terminates, with an error
\* that is not a failure raised by the operation.
C36_InvocationBounds ==
    /\ r_pc # "off" => r_calls <= r_m
    /\ (r_pc = "done" /\ r_m >= 1) => r_calls >= 1
    /\ (r_pc \notin {"off", "done"} /\ r_m = 0) => ENABLED RetryExhausted
    /\ (r_pc = "done" /\ r_m = 0)
           => /\ r_calls = 0
              /\ r_result.kind = "raise"
              /\ r_result.val.type = "TypeError"
              /\ \A i \in 0..MaxRetries : r_result.val # OpError(i)

\* A call with max_retries = 0 has ended.
C36_Witness ==
    /\ r_pc = "done"
    /\ r_m = 0
    /\ r_calls = 0
    /\ r_result.kind = "raise"

\* C37: cleanup_old_runs(days_old) deletes every run whose started-at is
\* earlier than midnight of (today minus days_old days), together with that
\* run's sources, and leaves every newer run untouched, for every current
\* calendar date and every days_old >= 0.
C37_CleanupDeletesOld ==
    [][k_op'.name = "cleanup_old_runs"
           => LET cutoff == k_today - k_op'.days_old
                  old == {r.id : r \in {x \in k_runs : x.started_at < cutoff}}
                  OfNewerRun(s) == s.run_id \notin old
              IN  /\ k_runs' = {r \in k_runs : r.id \notin old}
                  /\ k_sources' = SelectSeq(k_sources, OfNewerRun)]_vars

\* C38: referential integrity of the store: in every reachable database
\* state, after any sequence of create_run, add_source, save_memo and
\* cleanup_old_runs calls, each persisted source and each persisted memo has
\* a run_id that refers to an existing run.
C38_ReferentialIntegrity ==
    /\ \A k \in DOMAIN k_sources : \E r \in k_runs : r.id = k_sources[k].run_id
    /\ \A k \in DOMAIN k_memos : \E r \in k_runs : r.id = k_memos[k].run_id

\* The watchlist holds the ticker, compared case-insensitively.
Holds(items, watchlist_id, ticker) ==
    \E k \in DOMAIN items :
        /\ items[k].watchlist_id = watchlist_id
        /\ Upper(items[k].ticker) = Upper(ticker)

\* C39: after any sequence of add_to_watchlist and remove_from_watchlist
\* calls a watchlist never holds the same ticker twice, compared
\* case-insensitively; add_to_watchlist for a ticker already present returns
\* False and leaves the items and the watchlist's updated-at unchanged, and
\* remove_from_watchlist returns True iff the ticker was present and is
\* absent afterwards.
C39_WatchlistNoDuplicates ==
    [][/\ \A i, j \in DOMAIN w_items' :
              (i # j /\ w_items'[i].watchlist_id = w_items'[j].watchlist_id)
                  => Upper(w_items'[i].ticker) # Upper(w_items'[j].ticker)
       /\ (w_ret'.op = "add" /\ Holds(w_items, w_ret'.watchlist_id, w_ret'.ticker))
              => /\ w_ret'.result = FALSE
                 /\ w_items' = w_items
                 /\ w_updated' = w_updated
       /\ w_ret'.op = "remove"
              => (w_ret'.result = TRUE
                      <=> /\ Holds(w_items, w_ret'.watchlist_id, w_ret'.ticker)
                          /\ ~Holds(w_items', w_ret'.watchlist_id, w_ret'.ticker))]_vars

\* add_to_watchlist was called with the lower-case spelling of a ticker the
\* watchlist holds and returned False; the other watchlist holds it too.
C39_Witness ==
    /\ w_ret.op = "add"
    /\ w_ret.ticker = <<"a">>
    /\ w_ret.result = FALSE
    /\ Holds(w_items, w_ret.watchlist_id, w_ret.ticker)
    /\ \A id \in WatchlistIds : Holds(w_items, id, <<"A">>)

====
